---- MODULE Spec2Model ----
(***************************************************************************)
(* A model of lib/Bcp.js: the command argument builder (getCommonArgs),    *)
(* table qualification, option merging, the delimited reader and the three *)
(* callback pipelines bulkExport, bulkInsert and prepareBulkInsert.        *)
(*                                                                         *)
(* Strings are sequences of one-character strings, so that indexing,       *)
(* concatenation, case folding and JSON quoting are computed rather than   *)
(* assumed.  A JavaScript value is a tagged record: Undef, Num(n), Str(s)  *)
(* or Bool(b).                                                             *)
(***************************************************************************)
EXTENDS Integers, Sequences, FiniteSets, TLC

VARIABLES
    bcp,        \* the Bcp instance (its configuration fields)
    omitFormat, \* the mode flag of the getCommonArgs call under study
    args,       \* the list getCommonArgs returned (<<>> before the call)
    apc,        \* position of the argument-builder harness: "ready" / "built"
    op,         \* running public operation: "idle", "bulkExport", "bulkInsert", "prepareBulkInsert"
    pc,         \* outstanding asynchronous call of the running operation
    overrides,  \* the options object the caller passed (a function on its keys)
    options,    \* the effective options after mergeOptions
    columns,    \* prepareBulkInsert: the caller's column names
    fullTable,  \* the qualified table name
    formatFile, \* path of the format file of the operation
    dataFile,   \* path of the export / import data file of the operation
    format,     \* the FormatFile object held by the operation
    imp,        \* prepareBulkInsert: the ImportFile handle
    rows,       \* bulkExport: the closure variable rows
    details,    \* bulkExport: the closure variable details
    pending,    \* sub-tasks of the running Athena.map / Athena.parallel not yet called back
    groupErr,   \* first failure recorded by a parallel group that is still waiting
    hlog,       \* the failure the waterfall stopped on (NoErr while none)
    calls,      \* log of the external calls started by the operation, in order
    cb,         \* log of the invocations of the caller's callback
    files,      \* files present on disk
    origFormat, \* prepareBulkInsert: the descriptor as FormatFile.fromFile delivered it
    toolStdout, \* what the tool run in "out" / "in" mode printed (Null before it ends well)
    rdata,      \* readExport: the text Fs.readFile delivered
    rformat,    \* readExport: the format descriptor it was called with
    ri,         \* readExport: the offset i (1-based here)
    rrows,      \* readExport: the local array rows
    rpc,        \* readExport: "idle", "reading", "scanning", "done"
    rcb,        \* readExport: log of the invocations of its callback
    dvalue,     \* fieldDeserialize harness: the slice
    dfield,     \* fieldDeserialize harness: the field
    dresult,    \* fieldDeserialize harness: the value returned (Undef before the call)
    dpc,        \* fieldDeserialize harness: "idle", "ready", "decoded"
    ops,        \* two bulkExport calls on the one instance: the closure of each
    disk        \* two bulkExport calls: the files on disk, path to content

argVars == <<bcp, omitFormat, args, apc>>
opVars == <<op, pc, overrides, options, columns, fullTable, formatFile, dataFile,
            format, imp, rows, details, pending, groupErr, hlog, calls, cb, files,
            origFormat, toolStdout>>
readVars == <<rdata, rformat, ri, rrows, rpc, rcb>>
codecVars == <<dvalue, dfield, dresult, dpc>>
twoVars == <<ops, disk>>
vars == <<bcp, omitFormat, args, apc, op, pc, overrides, options, columns, fullTable,
          formatFile, dataFile, format, imp, rows, details, pending, groupErr, hlog,
          calls, cb, files, origFormat, toolStdout, rdata, rformat, ri, rrows, rpc, rcb,
          dvalue, dfield, dresult, dpc, ops, disk>>

-----------------------------------------------------------------------------
(* Bounds of the model. *)

MaxFields == 2   \* fields of a generated format descriptor
MaxCols == 2     \* column names passed to prepareBulkInsert
MaxData == 2     \* characters of an export file read back by the orchestrator
MaxTermLen == 2  \* characters of a configured row / field terminator

-----------------------------------------------------------------------------
(* JavaScript values and strings. *)

Undef == [t |-> "undef"]
Null == [t |-> "null"]
Num(n) == [t |-> "num", n |-> n]
Str(s) == [t |-> "str", s |-> s]
Bool(b) == [t |-> "bool", b |-> b]

\* JavaScript truthiness of a value, as used by every "if (bcp.x)" of getCommonArgs.
Truthy(v) ==
    CASE v.t = "undef" -> FALSE
      [] v.t = "null" -> FALSE
      [] v.t = "num" -> v.n # 0
      [] v.t = "str" -> v.s # <<>>
      [] v.t = "bool" -> v.b

\* All strings over alphabet A of length at most n.
StringsUpTo(A, n) == UNION {[1..k -> A] : k \in 0..n}

Lower(c) ==
    CASE c = "A" -> "a" [] c = "B" -> "b" [] c = "C" -> "c" [] c = "D" -> "d"
      [] c = "I" -> "i" [] c = "X" -> "x"
      [] OTHER -> c

\* String.prototype.toLowerCase
toLowerCase(s) == [i \in 1..Len(s) |-> Lower(s[i])]

\* Array.prototype.indexOf on a sequence: the first 1-based position of x, 0 for -1.
indexOf(seq, x) ==
    IF \E i \in 1..Len(seq) : seq[i] = x
    THEN CHOOSE i \in 1..Len(seq) : seq[i] = x /\ \A j \in 1..(i - 1) : seq[j] # x
    ELSE 0

RECURSIVE JsonEscape(_)
JsonEscape(s) ==
    IF s = <<>> THEN <<>>
    ELSE (CASE Head(s) = "\"" -> <<"\\", "\"">>
            [] Head(s) = "\\" -> <<"\\", "\\">>
            [] OTHER -> <<Head(s)>>) \o JsonEscape(Tail(s))

\* JSON.stringify of a string: quoted, with quote and backslash escaped.
JsonStringify(s) == <<"\"">> \o JsonEscape(s) \o <<"\"">>

IsDigit(c) == c \in {"0", "1", "2", "3", "4", "5", "6", "7", "8", "9"}

DigitValue(c) ==
    CASE c = "0" -> 0 [] c = "1" -> 1 [] c = "2" -> 2 [] c = "3" -> 3 [] c = "4" -> 4
      [] c = "5" -> 5 [] c = "6" -> 6 [] c = "7" -> 7 [] c = "8" -> 8 [] c = "9" -> 9

RECURSIVE DecimalValue(_)
DecimalValue(s) ==
    IF s = <<>> THEN 0
    ELSE 10 * DecimalValue(SubSeq(s, 1, Len(s) - 1)) + DigitValue(s[Len(s)])

IsSpace(c) == c \in {" ", "\t", "\n", "\r"}

RECURSIVE TrimLeft(_)
TrimLeft(s) == IF s # <<>> /\ IsSpace(Head(s)) THEN TrimLeft(Tail(s)) ELSE s

RECURSIVE TrimRight(_)
TrimRight(s) ==
    IF s # <<>> /\ IsSpace(s[Len(s)]) THEN TrimRight(SubSeq(s, 1, Len(s) - 1)) ELSE s

\* Number(string) on texts of digits and white space: white space is trimmed,
\* the empty text is 0, a run of digits is its value, anything else is NaN.
ToNumber(s) ==
    LET t == TrimRight(TrimLeft(s))
    IN  IF \A k \in 1..Len(t) : IsDigit(t[k]) THEN Num(DecimalValue(t)) ELSE [t |-> "NaN"]

\* Number(x) of a configured value.
Number(v) ==
    CASE v.t = "num" -> v
      [] v.t = "str" -> ToNumber(v.s)
      [] v.t = "bool" -> Num(IF v.b THEN 1 ELSE 0)
      [] v.t = "null" -> Num(0)
      [] OTHER -> [t |-> "NaN"]

-----------------------------------------------------------------------------
(* getCommonArgs: the configuration to the ordered token list. *)

\* A builder that emits every numeric option that was given, zero included.
NumArgIfGiven(flag, v) ==
    IF v.t \notin {"undef", "null"} THEN <<Str(flag), Number(v)>> ELSE <<>>

NumArg(flag, v) == IF Truthy(v) THEN <<Str(flag), Number(v)>> ELSE <<>>

StrArg(flag, v) == IF Truthy(v) THEN <<Str(flag), Str(JsonStringify(v.s))>> ELSE <<>>

FlagArg(flag, v) == IF Truthy(v) THEN <<Str(flag)>> ELSE <<>>

\* A builder that emits the encoding flag whatever the mode flag.
EncodingArgsAlways(b, omit) ==
    IF Truthy(b.unicode) THEN <<Str(<<"-", "w">>)>> ELSE <<Str(<<"-", "c">>)>>

EncodingArgs(b, omit) ==
    IF ~omit THEN (IF Truthy(b.unicode) THEN <<Str(<<"-", "w">>)>> ELSE <<Str(<<"-", "c">>)>>)
    ELSE <<>>

\* A builder that always passes a terminator as a separate token.
TerminatorArgsSeparate(flag, v, omit) ==
    IF Truthy(v) /\ ~omit THEN <<Str(flag), Str(JsonStringify(v.s))>> ELSE <<>>

TerminatorArgs(flag, v, omit) ==
    IF Truthy(v) /\ ~omit
    THEN IF v.s[1] \in {"-", "/"}
         THEN <<Str(flag \o v.s)>>
         ELSE <<Str(flag), Str(JsonStringify(v.s))>>
    ELSE <<>>

\* A builder that emits the credentials before looking at the trusted flag.
AuthArgsCredentialsFirst(b) ==
    StrArg(<<"-", "U">>, b.user) \o StrArg(<<"-", "P">>, b.password)
    \o (IF Truthy(b.trusted) THEN <<Str(<<"-", "T">>)>> ELSE <<>>)

AuthArgs(b) ==
    IF Truthy(b.trusted)
    THEN <<Str(<<"-", "T">>)>>
    ELSE StrArg(<<"-", "U">>, b.user) \o StrArg(<<"-", "P">>, b.password)

RECURSIVE Join(_)
Join(hs) ==
    IF hs = <<>> THEN <<>>
    ELSE IF Len(hs) = 1 THEN hs[1]
    ELSE hs[1] \o <<",">> \o Join(Tail(hs))

\* Literal texts of the source.
ORDER_ == <<"O", "R", "D", "E", "R", "(">>
ROWS_PER_BATCH_ == <<"R", "O", "W", "S", "_", "P", "E", "R", "_", "B", "A", "T", "C", "H", "=">>
KILOBYTES_PER_BATCH_ == <<"K", "I", "L", "O", "B", "Y", "T", "E", "S", "_", "P", "E", "R", "_", "B", "A", "T", "C", "H", "=">>
TABLOCK == <<"T", "A", "B", "L", "O", "C", "K">>
CHECK_CONSTRAINTS == <<"C", "H", "E", "C", "K", "_", "C", "O", "N", "S", "T", "R", "A", "I", "N", "T", "S">>
FIRE_TRIGGERS == <<"F", "I", "R", "E", "_", "T", "R", "I", "G", "G", "E", "R", "S">>
READONLY == <<"R", "e", "a", "d", "O", "n", "l", "y">>
DBO == <<"d", "b", "o">>

DigitChar(d) == <<"0", "1", "2", "3", "4", "5", "6", "7", "8", "9">>[d + 1]

\* The decimal text of a natural number, as string concatenation prints Number(x).
RECURSIVE NumberToString(_)
NumberToString(n) ==
    IF n < 10 THEN <<DigitChar(n)>>
    ELSE NumberToString(n \div 10) \o <<DigitChar(n % 10)>>

\* '...' + Number(x)
NumberText(v) ==
    IF Number(v).t = "NaN" THEN <<"N", "a", "N">> ELSE NumberToString(Number(v).n)

\* A hint list that puts the three switches before the three valued hints.
HintListSwitchesFirst(b) ==
    (IF Truthy(b.tabLock) THEN <<TABLOCK>> ELSE <<>>)
    \o (IF Truthy(b.checkConstraints) THEN <<CHECK_CONSTRAINTS>> ELSE <<>>)
    \o (IF Truthy(b.fireTriggers) THEN <<FIRE_TRIGGERS>> ELSE <<>>)
    \o (IF Truthy(b.order) THEN <<ORDER_ \o b.order.s \o <<")">> >> ELSE <<>>)
    \o (IF Truthy(b.rowsPerBatch)
        THEN <<ROWS_PER_BATCH_ \o NumberText(b.rowsPerBatch)>> ELSE <<>>)
    \o (IF Truthy(b.kbPerBatch)
        THEN <<KILOBYTES_PER_BATCH_ \o NumberText(b.kbPerBatch)>> ELSE <<>>)

HintList(b) ==
    (IF Truthy(b.order) THEN <<ORDER_ \o b.order.s \o <<")">> >> ELSE <<>>)
    \o (IF Truthy(b.rowsPerBatch)
        THEN <<ROWS_PER_BATCH_ \o NumberText(b.rowsPerBatch)>> ELSE <<>>)
    \o (IF Truthy(b.kbPerBatch)
        THEN <<KILOBYTES_PER_BATCH_ \o NumberText(b.kbPerBatch)>> ELSE <<>>)
    \o (IF Truthy(b.tabLock) THEN <<TABLOCK>> ELSE <<>>)
    \o (IF Truthy(b.checkConstraints) THEN <<CHECK_CONSTRAINTS>> ELSE <<>>)
    \o (IF Truthy(b.fireTriggers) THEN <<FIRE_TRIGGERS>> ELSE <<>>)

HintArgs(b) ==
    IF Len(HintList(b)) > 0
    THEN <<Str(<<"-", "h">>), Str(JsonStringify(Join(HintList(b))))>>
    ELSE <<>>

getCommonArgs(b, omit) ==
    NumArg(<<"-", "a">>, b.packetSize)
    \o NumArg(<<"-", "b">>, b.batchSize)
    \o EncodingArgs(b, omit)
    \o (IF ~omit THEN StrArg(<<"-", "C">>, b.codePage) ELSE <<>>)
    \o StrArg(<<"-", "e">>, b.errorFile)
    \o FlagArg(<<"-", "E">>, b.useIdentity)
    \o NumArg(<<"-", "F">>, b.firstRow)
    \o StrArg(<<"-", "i">>, b.inputFile)
    \o (IF Truthy(b.readOnly) THEN <<Str(<<"-", "K">>), Str(READONLY)>> ELSE <<>>)
    \o FlagArg(<<"-", "k">>, b.keepNulls)
    \o NumArg(<<"-", "L">>, b.lastRow)
    \o NumArg(<<"-", "m">>, b.maxErrors)
    \o FlagArg(<<"-", "R">>, b.regional)
    \o TerminatorArgs(<<"-", "r">>, b.rowTerminator, omit)
    \o StrArg(<<"-", "S">>, b.server)
    \o TerminatorArgs(<<"-", "t">>, b.fieldTerminator, omit)
    \o AuthArgs(b)
    \o HintArgs(b)

\* getQualifiedTable: [database].[schema].[table], JSON-quoted on request.
Bracket(s) == <<"[">> \o s \o <<"]">>

\* A qualification that puts the schema in front of the database.
getQualifiedTableSchemaOutside(b, table) ==
    LET a1 == Bracket(table)
        a2 == IF Truthy(b.database) THEN Bracket(b.database.s) \o <<".">> \o a1 ELSE a1
        a3 == IF Truthy(b.schema) THEN Bracket(b.schema.s) \o <<".">> \o a2 ELSE a2
    IN  IF Truthy(b.quotedIdentifiers) THEN JsonStringify(a3) ELSE a3

getQualifiedTable(b, table) ==
    LET a1 == Bracket(table)
        a2 == IF Truthy(b.schema) THEN Bracket(b.schema.s) \o <<".">> \o a1 ELSE a1
        a3 == IF Truthy(b.database) THEN Bracket(b.database.s) \o <<".">> \o a2 ELSE a2
    IN  IF Truthy(b.quotedIdentifiers) THEN JsonStringify(a3) ELSE a3

\* mergeOptions: the defaults object, each of ITS keys overwritten by the
\* override of the same key; keys of the overrides that the defaults lack are lost.
mergeOptions(defaults, over) ==
    [k \in DOMAIN defaults |-> IF k \in DOMAIN over THEN over[k] ELSE defaults[k]]

-----------------------------------------------------------------------------
(* The constructor: options object to configuration. *)

Get(o, k) == IF k \in DOMAIN o THEN o[k] ELSE Undef

\* x || d
OrElse(x, d) == IF Truthy(x) THEN x ELSE d

\* !!x
ToBool(x) == Bool(Truthy(x))

Bcp(o) ==
    [exec |-> OrElse(Get(o, "exec"), Str(<<"b", "c", "p">>)),
     database |-> Get(o, "database"),
     schema |-> OrElse(Get(o, "schema"), Str(DBO)),
     packetSize |-> Get(o, "packetSize"),
     batchSize |-> Get(o, "batchSize"),
     unicode |-> IF "unicode" \in DOMAIN o THEN ToBool(o["unicode"]) ELSE Bool(TRUE),
     codePage |-> OrElse(Get(o, "codePage"), Null),
     errorFile |-> Get(o, "errorFile"),
     useIdentity |-> ToBool(Get(o, "useIdentity")),
     firstRow |-> Get(o, "firstRow"),
     order |-> Get(o, "order"),
     rowsPerBatch |-> Get(o, "rowsPerBatch"),
     kbPerBatch |-> Get(o, "kbPerBatch"),
     tabLock |-> ToBool(Get(o, "tabLock")),
     checkConstraints |-> ToBool(Get(o, "checkConstraints")),
     fireTriggers |-> ToBool(Get(o, "fireTriggers")),
     inputFile |-> Get(o, "inputFile"),
     keepNulls |-> ToBool(Get(o, "keepNulls")),
     readOnly |-> ToBool(Get(o, "readOnly")),
     lastRow |-> Get(o, "lastRow"),
     maxErrors |-> Get(o, "maxErrors"),
     password |-> Get(o, "password"),
     quotedIdentifiers |-> ToBool(Get(o, "quotedIdentifiers")),
     rowTerminator |-> Get(o, "rowTerminator"),
     regional |-> ToBool(Get(o, "regional")),
     server |-> Get(o, "server"),
     fieldTerminator |-> Get(o, "fieldTerminator"),
     trusted |-> ToBool(Get(o, "trusted")),
     user |-> Get(o, "user")]

-----------------------------------------------------------------------------
(* Inputs of the argument-builder harness. *)

\* Characters a terminator is drawn from: the two the builder tests for, a
\* plain one, and one that JSON.stringify escapes.
TermAlphabet == {"-", "/", "a", "\""}

Terminators == {Undef} \cup {Str(s) : s \in StringsUpTo(TermAlphabet, MaxTermLen)}

\* Options the terminator / authentication study leaves alone: none of them
\* given, or all of them given (the server then has the text of a credential).
NoOptions == [k \in {} |-> Undef]

OtherOptions ==
    [packetSize |-> Num(4096), batchSize |-> Num(2), codePage |-> Str(<<"O", "E", "M">>),
     errorFile |-> Str(<<"-", "e">>), useIdentity |-> Bool(TRUE), firstRow |-> Num(1),
     inputFile |-> Str(<<"i">>), readOnly |-> Bool(TRUE), keepNulls |-> Bool(TRUE),
     lastRow |-> Num(9), maxErrors |-> Num(3), regional |-> Bool(TRUE),
     order |-> Str(<<"i", "d">>), rowsPerBatch |-> Num(10), kbPerBatch |-> Num(5),
     tabLock |-> Bool(TRUE), checkConstraints |-> Bool(TRUE), fireTriggers |-> Bool(TRUE),
     server |-> Str(<<"a">>), unicode |-> Bool(FALSE)]

Credentials == {Undef, Str(<<"a">>)}

AuthTermOptions(bg, tr, u, pw, rt, ft) ==
    bg @@ [trusted |-> Bool(tr), user |-> u, password |-> pw,
           rowTerminator |-> rt, fieldTerminator |-> ft]

-----------------------------------------------------------------------------
(* State of an idle instance: no operation running. *)

NoErr == [kind |-> "none"]
NoPath == [dir |-> "", base |-> "", suffix |-> ""]
NoFormat == [filename |-> NoPath, fields |-> <<>>, loaded |-> FALSE]
NoDetails == [formatFile |-> NoPath, exportFile |-> NoPath, rowCount |-> 0, stdout |-> Null]

Idle ==
    /\ op = "idle"
    /\ pc = "idle"
    /\ overrides = NoOptions
    /\ options = NoOptions
    /\ columns = <<>>
    /\ fullTable = <<>>
    /\ formatFile = NoPath
    /\ dataFile = NoPath
    /\ format = NoFormat
    /\ imp = Null
    /\ rows = Undef
    /\ details = NoDetails
    /\ pending = {}
    /\ groupErr = NoErr
    /\ hlog = NoErr
    /\ calls = <<>>
    /\ cb = <<>>
    /\ files = {}
    /\ origFormat = NoFormat
    /\ toolStdout = Null

NoField == [name |-> <<>>, type |-> "", terminator |-> <<>>, inImport |-> FALSE]

\* The closure of a bulkExport call that has not been made.
NoOp ==
    [pc |-> "idle", base |-> "", overrides |-> [k \in {} |-> Undef],
     options |-> [k \in {} |-> Undef], formatFile |-> NoPath, exportFile |-> NoPath,
     format |-> NoFormat, rows |-> Undef, details |-> NoDetails, pending |-> {},
     groupErr |-> NoErr, hlog |-> NoErr, cb |-> <<>>,
     wroteFormat |-> <<>>, wroteData |-> <<>>, wroteStdout |-> <<>>]

Calls == {1, 2}

\* Neither of the two bulkExport calls made, nothing on disk.
TwoIdle ==
    /\ ops = [k \in Calls |-> NoOp]
    /\ disk = [p \in {} |-> Null]

\* No readExport call running.
ReaderIdle ==
    /\ rdata = <<>>
    /\ rformat = NoFormat
    /\ ri = 1
    /\ rrows = <<>>
    /\ rpc = "idle"
    /\ rcb = <<>>

\* No fieldDeserialize call under study.
CodecIdle ==
    /\ dvalue = <<>>
    /\ dfield = NoField
    /\ dresult = Undef
    /\ dpc = "idle"

-----------------------------------------------------------------------------
(* The argument-builder harness: a configuration is constructed, then      *)
(* getCommonArgs is applied to it with a mode flag.                        *)

InitArgs ==
    /\ \E bg \in {NoOptions, OtherOptions}, tr \in BOOLEAN,
          u \in Credentials, pw \in Credentials,
          rt \in Terminators, ft \in Terminators :
            bcp = Bcp(AuthTermOptions(bg, tr, u, pw, rt, ft))
    /\ omitFormat \in BOOLEAN
    /\ args = <<>>
    /\ apc = "ready"
    /\ Idle
    /\ TwoIdle
    /\ ReaderIdle
    /\ CodecIdle

BuildArgs ==
    /\ apc = "ready"
    /\ args' = getCommonArgs(bcp, omitFormat)
    /\ apc' = "built"
    /\ UNCHANGED <<bcp, omitFormat>>
    /\ UNCHANGED opVars
    /\ UNCHANGED twoVars
    /\ UNCHANGED readVars
    /\ UNCHANGED codecVars

NextArgs == BuildArgs

SpecArgs == InitArgs /\ [][NextArgs]_vars

\* The hint study: every combination of the six hint options, each unset, set
\* to a falsy value or set to a truthy one, over both backgrounds.
HintOptionNames == {"order", "rowsPerBatch", "kbPerBatch", "tabLock", "checkConstraints",
                    "fireTriggers"}

Background(bg, focus) == [k \in DOMAIN bg \ focus |-> bg[k]]

Orders == {Undef, Str(<<>>), Str(<<"i", "d">>)}
RowsPerBatches == {Undef, Num(0), Num(10)}
KbPerBatches == {Undef, Num(0), Str(<<"5">>)}

InitHints ==
    /\ \E bg \in {NoOptions, OtherOptions}, o \in Orders, rpb \in RowsPerBatches,
          kpb \in KbPerBatches, tl \in BOOLEAN, cc \in BOOLEAN, ft \in BOOLEAN :
            bcp = Bcp([order |-> o, rowsPerBatch |-> rpb, kbPerBatch |-> kpb,
                       tabLock |-> Bool(tl), checkConstraints |-> Bool(cc),
                       fireTriggers |-> Bool(ft)]
                      @@ Background(bg, HintOptionNames))
    /\ omitFormat \in BOOLEAN
    /\ args = <<>>
    /\ apc = "ready"
    /\ Idle
    /\ TwoIdle
    /\ ReaderIdle
    /\ CodecIdle

SpecHints == InitHints /\ [][NextArgs]_vars

\* The numeric study: each of the five numeric options unset, zero, a number
\* or the text of a number, over both backgrounds.
NumericOptionNames == {"packetSize", "batchSize", "firstRow", "lastRow", "maxErrors"}

Numerics == {Undef, Num(0), Num(7), Str(<<"1", "2">>)}

InitNumeric ==
    /\ \E bg \in {NoOptions, OtherOptions}, ps \in Numerics, bs \in Numerics,
          fr \in Numerics, lr \in Numerics, me \in Numerics :
            bcp = Bcp([packetSize |-> ps, batchSize |-> bs, firstRow |-> fr,
                       lastRow |-> lr, maxErrors |-> me]
                      @@ Background(bg, NumericOptionNames))
    /\ omitFormat \in BOOLEAN
    /\ args = <<>>
    /\ apc = "ready"
    /\ Idle
    /\ TwoIdle
    /\ ReaderIdle
    /\ CodecIdle

SpecNumeric == InitNumeric /\ [][NextArgs]_vars

-----------------------------------------------------------------------------
(* The delimited reader: fieldDeserialize and the scan loop of readExport. *)

NUL == "NUL"   \* String.fromCharCode(0), one character

\* Bcp.typesMap: the constructor a type tag maps to ("String" when unlisted).
typesMap(type) ==
    CASE type = "SQLBIT" -> "Boolean"
      [] type \in {"SQLTINYINT", "SQLSMALLINT", "SQLINT", "SQLBIGINT", "SQLFLT4", "SQLFLT8"}
            -> "Number"
      [] type \in {"SQLDATETIME", "SQLDATETIM4", "SQLDATETIM8"} -> "Date"
      [] OTHER -> "String"

\* A decoder that coerces by type before it looks for the two sentinels.
fieldDeserializeCoerceFirst(value, field) ==
    LET cons == typesMap(field.type)
    IN  CASE cons = "Date" -> [t |-> "date", s |-> value]
          [] cons = "Number" -> ToNumber(value)
          [] cons = "Boolean" -> Bool(value = <<"1">>)
          [] OTHER -> IF value = <<>> THEN Null
                      ELSE IF value = <<NUL>> THEN Str(<<>>) ELSE Str(value)

fieldDeserialize(value, field) ==
    LET cons == typesMap(field.type)
    IN  IF value = <<>> THEN Null
        ELSE IF value = <<NUL>> THEN Str(<<>>)
        ELSE CASE cons = "Date" -> [t |-> "date", s |-> value]
               [] cons = "Number" -> ToNumber(value)
               [] cons = "Boolean" -> Bool(value = <<"1">>)
               [] OTHER -> Str(value)

\* data.indexOf(t, i) with 1-based positions: the first position >= i at which
\* t occurs in data, 0 when there is none.  The empty t occurs at i.
indexOfFrom(data, t, i) ==
    LET hits == {p \in i..(Len(data) - Len(t) + 1) : SubSeq(data, p, p + Len(t) - 1) = t}
    IN  IF hits = {} THEN 0 ELSE CHOOSE p \in hits : \A q \in hits : p <= q

\* A for loop that keeps the row begun when a terminator is missing.
RECURSIVE ScanRowKeepPartial(_, _, _, _, _)
ScanRowKeepPartial(data, fields, c, i, o) ==
    IF c > Len(fields) THEN [ok |-> TRUE, i |-> i, o |-> o]
    ELSE LET t == fields[c].terminator
             dex == indexOfFrom(data, t, i)
         IN  IF dex = 0 THEN [ok |-> TRUE, i |-> Len(data) + 1, o |-> o]
             ELSE ScanRowKeepPartial(data, fields, c + 1, dex + Len(t),
                          [n \in DOMAIN o \cup {fields[c].name} |->
                              IF n = fields[c].name
                              THEN fieldDeserialize(SubSeq(data, i, dex - 1), fields[c])
                              ELSE o[n]])

\* A for loop that steps over one character of a found terminator only.
RECURSIVE ScanRowAdvanceOne(_, _, _, _, _)
ScanRowAdvanceOne(data, fields, c, i, o) ==
    IF c > Len(fields) THEN [ok |-> TRUE, i |-> i, o |-> o]
    ELSE LET t == fields[c].terminator
             dex == indexOfFrom(data, t, i)
         IN  IF dex = 0 THEN [ok |-> FALSE, i |-> i, o |-> o]
             ELSE ScanRowAdvanceOne(data, fields, c + 1, dex + 1,
                          [n \in DOMAIN o \cup {fields[c].name} |->
                              IF n = fields[c].name
                              THEN fieldDeserialize(SubSeq(data, i, dex - 1), fields[c])
                              ELSE o[n]])

\* One pass of the inner for loop from field c on: the row object so far
\* (a sequence of <<name, value>> assignments, a later one of the same name
\* overwriting an earlier one) and the offset; ok is FALSE on "break data_loop".
RECURSIVE ScanRow(_, _, _, _, _)
ScanRow(data, fields, c, i, o) ==
    IF c > Len(fields) THEN [ok |-> TRUE, i |-> i, o |-> o]
    ELSE LET t == fields[c].terminator
             dex == indexOfFrom(data, t, i)
         IN  IF dex = 0 THEN [ok |-> FALSE, i |-> i, o |-> o]
             ELSE ScanRow(data, fields, c + 1, dex + Len(t),
                          [n \in DOMAIN o \cup {fields[c].name} |->
                              IF n = fields[c].name
                              THEN fieldDeserialize(SubSeq(data, i, dex - 1), fields[c])
                              ELSE o[n]])

\* The while loop of readExport from offset i (1-based) with the rows pushed so far.
\* (Applied here to descriptors with at least one field and non-empty terminators,
\* for which every completed row advances the offset.)
RECURSIVE ScanRows(_, _, _, _)
ScanRows(data, fields, i, acc) ==
    IF i > Len(data) THEN acc
    ELSE LET r == ScanRow(data, fields, 1, i, [n \in {} |-> Null])
         IN  IF ~r.ok THEN acc
             ELSE ScanRows(data, fields, r.i, Append(acc, r.o))

readExport(data, fmt) == ScanRows(data, fmt.fields, 1, <<>>)

-----------------------------------------------------------------------------
(* Paths, descriptors and the other inputs of the operations. *)

TMP == "tmp"   \* bcp.tmp

\* tempFile: a fresh base name under bcp.tmp
TempBases == {"t1", "t2"}

\* A temp file name that does not depend on the base drawn for the call.
tempFileShared(base, suffix) == [dir |-> TMP, base |-> "t0", suffix |-> suffix]

tempFile(base, suffix) == [dir |-> TMP, base |-> base, suffix |-> suffix]

\* Path.dirname(Path.resolve(cwd, p))
dirname(p) == p.dir

UserFormatFile == [dir |-> "u", base |-> "my", suffix |-> "_format.xml"]
UserExportFile == [dir |-> "u", base |-> "my", suffix |-> "_export.dat"]
UserImportFile == [dir |-> TMP, base |-> "my", suffix |-> "_import.dat"]

TableName == <<"t">>

\* Field names of the live table, and names a caller may ask for.
FieldNames == {<<"a">>, <<"A">>, <<"b">>}
ColumnNames == {<<"a">>, <<"A">>, <<"B">>, <<"c">>}

FieldType(name) ==
    CASE name = <<"a">> -> "SQLINT" [] name = <<"A">> -> "SQLBIT" [] OTHER -> "SQLNCHAR"

\* The descriptor FormatFile.fromFile delivers for a table whose columns are names.
Descriptor(names) ==
    [k \in 1..Len(names) |->
        [name |-> names[k], type |-> FieldType(names[k]),
         terminator |-> IF k = Len(names) THEN <<"\n">> ELSE <<"\t">>,
         inImport |-> FALSE]]

IsInjective(f) == \A x, y \in DOMAIN f : f[x] = f[y] => x = y

Descriptors ==
    {Descriptor(names) :
        names \in {n \in UNION {[1..k -> FieldNames] : k \in 1..MaxFields} : IsInjective(n)}}

ColumnLists == UNION {[1..k -> ColumnNames] : k \in 0..MaxCols}

ExportData == StringsUpTo({"1", "\t", "\n"}, MaxData)

ROWS_COPIED == <<" ", "r", "o", "w", "s", " ", "c", "o", "p", "i", "e", "d", ".">>

\* What the tool prints: nothing, one summary, a two-digit summary followed by
\* another summary, and the summary text with no number before it.
Stdouts ==
    {<<>>, <<"2">> \o ROWS_COPIED,
     <<"1", "2">> \o ROWS_COPIED \o <<"3">> \o ROWS_COPIED,
     <<"x">> \o ROWS_COPIED}

TwoStdouts == {<<>>, <<"2">> \o ROWS_COPIED}

\* The positions at which /(\d+) rows copied\./ matches stdout.
MatchStarts(stdout) ==
    LET L == Len(ROWS_COPIED)
    IN  {p \in 1..Len(stdout) :
            \E q \in (p + 1)..(Len(stdout) - L + 1) :
                /\ \A k \in p..(q - 1) : IsDigit(stdout[k])
                /\ SubSeq(stdout, q, q + L - 1) = ROWS_COPIED}

HasRowCount(stdout) == MatchStarts(stdout) # {}

\* Number(match[1]) of the leftmost match of /(\d+) rows copied\./ in stdout.
RowCount(stdout) ==
    LET L == Len(ROWS_COPIED)
        starts == MatchStarts(stdout)
    IN  IF starts = {} THEN 0
        ELSE LET p == CHOOSE x \in starts : \A y \in starts : x <= y
                 q == CHOOSE x \in (p + 1)..(Len(stdout) - L + 1) :
                        /\ \A k \in p..(x - 1) : IsDigit(stdout[k])
                        /\ SubSeq(stdout, x, x + L - 1) = ROWS_COPIED
             IN  DecimalValue(SubSeq(stdout, p, q - 1))

Err(kind) == [kind |-> kind]

DOES_NOT_CONTAIN == <<" ", "d", "o", "e", "s", " ", "n", "o", "t", " ", "c", "o", "n", "t", "a", "i", "n", " ", "c", "o", "l", "u", "m", "n", " ">>

\* new Error(fullTable + ' does not contain column ' + column)
ColumnError(table, column) ==
    [kind |-> "column", message |-> table \o DOES_NOT_CONTAIN \o column]

-----------------------------------------------------------------------------
(* The pipelines.  Athena.waterfall runs the steps in order, each started   *)
(* by the callback of the one before; a step that calls back with an error  *)
(* ends the waterfall, whose final function then gets a failed log.         *)
(* Athena.map and Athena.parallel start all their sub-tasks at once; which  *)
(* of them the library waits for after one has failed is left open: it may  *)
(* report at the first failure or after the last sub-task has called back.  *)

OptionOr(o, k, d) == IF k \in DOMAIN o /\ o[k] # Undef THEN o[k] ELSE d

\* The distinct parent directories, in argument order (ensureDirectories).
Dirs(p1, p2) == IF dirname(p1) = dirname(p2) THEN <<dirname(p1)>> ELSE <<dirname(p1), dirname(p2)>>

MkdirpCalls(ds) == [k \in 1..Len(ds) |-> [call |-> "mkdirp", target |-> ds[k]]]

UnlinkCall(path) == [call |-> "unlink", target |-> path]

Range(f) == {f[k] : k \in DOMAIN f}

\* A final function that hands the closure variables to the caller on failure too.
FailWithResults(e) ==
    /\ hlog' = e
    /\ cb' = Append(cb, [err |-> e, rest |-> <<rows, details>>])
    /\ pc' = "done"

\* The final function of a waterfall that failed: callback(hlog).
Fail(e) ==
    /\ hlog' = e
    /\ cb' = Append(cb, [err |-> e, rest |-> <<>>])
    /\ pc' = "done"

\* The final function of a waterfall whose steps all succeeded.
Succeed(rest) ==
    /\ hlog' = hlog
    /\ cb' = Append(cb, [err |-> Null, rest |-> rest])
    /\ pc' = "done"

\* A step handed its work to an asynchronous call: nothing is reported yet.
Await(next) ==
    /\ hlog' = hlog
    /\ cb' = cb
    /\ pc' = next

ExportDefaults == [read |-> TRUE, keepFiles |-> FALSE]

ExportOverrides ==
    UNION {[S -> BOOLEAN] : S \in SUBSET {"read", "keepFiles"}}

ExportPathOverrides ==
    {NoOptions, [formatFile |-> UserFormatFile], [exportFile |-> UserExportFile],
     [formatFile |-> UserFormatFile, exportFile |-> UserExportFile]}

\* Options left as merged: read:false does not imply keepFiles.
ImplyKeepNothing(o) == o

\* if (!options.read) options.keepFiles = true
ImplyKeep(o) == IF ~o.read THEN [o EXCEPT !.keepFiles = TRUE] ELSE o

\* A bulkExport that notes the implied keepFiles on the instance as well.
StartBulkExportKeepsOnInstance ==
    /\ op = "idle"
    /\ \E ov \in ExportOverrides, pv \in ExportPathOverrides, base \in TempBases :
        LET o == ImplyKeep(mergeOptions(ExportDefaults, ov @@ pv))
            ff == OptionOr(o, "formatFile", tempFile(base, "_format.xml"))
            ef == OptionOr(o, "exportFile", tempFile(base, "_export.dat"))
        IN  /\ op' = "bulkExport"
            /\ overrides' = ov @@ pv
            /\ options' = o
            /\ fullTable' = getQualifiedTable(bcp, TableName)
            /\ formatFile' = ff
            /\ dataFile' = ef
            /\ details' = [formatFile |-> ff, exportFile |-> ef, rowCount |-> 0, stdout |-> Null]
            /\ pending' = Range(MkdirpCalls(Dirs(ff, ef)))
            /\ calls' = MkdirpCalls(Dirs(ff, ef))
            /\ Await("mkdirp")
            /\ bcp' = IF ov # NoOptions /\ ~o.read
                      THEN [k \in DOMAIN bcp \cup {"keepFiles"} |->
                               IF k = "keepFiles" THEN Bool(TRUE) ELSE bcp[k]]
                      ELSE bcp
    /\ UNCHANGED <<columns, format, imp, rows, groupErr, files, origFormat>>
    /\ UNCHANGED <<omitFormat, args, apc>>
    /\ UNCHANGED toolStdout
    /\ UNCHANGED twoVars
    /\ UNCHANGED readVars
    /\ UNCHANGED codecVars

\* bulkExport up to the first asynchronous call (ensureDirectories).
StartBulkExport ==
    /\ op = "idle"
    /\ \E ov \in ExportOverrides, pv \in ExportPathOverrides, base \in TempBases :
        LET o == ImplyKeep(mergeOptions(ExportDefaults, ov @@ pv))
            ff == OptionOr(o, "formatFile", tempFile(base, "_format.xml"))
            ef == OptionOr(o, "exportFile", tempFile(base, "_export.dat"))
        IN  /\ op' = "bulkExport"
            /\ overrides' = ov @@ pv
            /\ options' = o
            /\ fullTable' = getQualifiedTable(bcp, TableName)
            /\ formatFile' = ff
            /\ dataFile' = ef
            /\ details' = [formatFile |-> ff, exportFile |-> ef, rowCount |-> 0, stdout |-> Null]
            /\ pending' = Range(MkdirpCalls(Dirs(ff, ef)))
            /\ calls' = MkdirpCalls(Dirs(ff, ef))
            /\ Await("mkdirp")
    /\ UNCHANGED <<columns, format, imp, rows, groupErr, files, origFormat>>
    /\ UNCHANGED argVars
    /\ UNCHANGED toolStdout
    /\ UNCHANGED twoVars
    /\ UNCHANGED readVars
    /\ UNCHANGED codecVars

CallerFormat ==
    [filename |-> tempFile("t0", "_format.xml"),
     fields |-> Descriptor(<<<<"a">>, <<"b">>>>), loaded |-> TRUE]

CallerImportFile == tempFile("t0", "_import.dat")

InsertOverrides == UNION {[S -> BOOLEAN] : S \in SUBSET {"keepFiles"}}

ExecCall(mode, table, file, fmtFile, common) ==
    [call |-> "exec", mode |-> mode, table |-> table, file |-> file,
     formatFile |-> fmtFile, args |-> common]

\* bulkInsert up to its first asynchronous call: the tool in "in" mode.
StartBulkInsert ==
    /\ op = "idle"
    /\ \E ov \in InsertOverrides :
        /\ op' = "bulkInsert"
        /\ overrides' = ov
        /\ options' = mergeOptions([keepFiles |-> FALSE], ov)
    /\ format' = CallerFormat
    /\ formatFile' = CallerFormat.filename
    /\ dataFile' = CallerImportFile
    /\ files' = {CallerFormat.filename, CallerImportFile}
    /\ fullTable' = getQualifiedTable(bcp, TableName)
    /\ calls' = <<ExecCall("in", getQualifiedTable(bcp, TableName), CallerImportFile,
                           CallerFormat.filename, getCommonArgs(bcp, TRUE))>>
    /\ Await("exec")
    /\ UNCHANGED <<columns, imp, rows, details, pending, groupErr, origFormat>>
    /\ UNCHANGED argVars
    /\ UNCHANGED toolStdout
    /\ UNCHANGED twoVars
    /\ UNCHANGED readVars
    /\ UNCHANGED codecVars

PrepareOverrides ==
    {NoOptions, [formatFile |-> UserFormatFile], [importFile |-> UserImportFile],
     [formatFile |-> UserFormatFile, importFile |-> UserImportFile]}

\* prepareBulkInsert up to the first asynchronous call (ensureDirectories).
StartPrepareBulkInsert ==
    /\ op = "idle"
    /\ \E ov \in PrepareOverrides, base \in TempBases, cols \in ColumnLists :
        LET o == mergeOptions([formatFile |-> tempFile(base, "_format.xml"),
                               importFile |-> tempFile(base, "_import.dat")], ov)
        IN  /\ op' = "prepareBulkInsert"
            /\ overrides' = ov
            /\ options' = o
            /\ columns' = cols
            /\ fullTable' = getQualifiedTable(bcp, TableName)
            /\ formatFile' = o.formatFile
            /\ dataFile' = o.importFile
            /\ pending' = Range(MkdirpCalls(Dirs(o.formatFile, o.importFile)))
            /\ calls' = MkdirpCalls(Dirs(o.formatFile, o.importFile))
            /\ Await("mkdirp")
    /\ UNCHANGED <<format, imp, rows, details, groupErr, files, origFormat>>
    /\ UNCHANGED argVars
    /\ UNCHANGED toolStdout
    /\ UNCHANGED twoVars
    /\ UNCHANGED readVars
    /\ UNCHANGED codecVars

\* formatGenerate up to its asynchronous call: the tool in format mode.
FormatGenerateCall ==
    ExecCall("format", fullTable, formatFile, formatFile, getCommonArgs(bcp, FALSE))

\* What a parallel group (Athena.map, Athena.parallel) does when a sub-task
\* calls back: "next" when the last one has succeeded, "fail" when the group
\* reports a failure now, "wait" while it waits for the others.  After a
\* failure with others outstanding both "fail" and "wait" are possible.
GroupOutcomes(ok, left, gErr) ==
    IF ok /\ gErr = NoErr
    THEN (IF left = {} THEN {"next"} ELSE {"wait"})
    ELSE IF left = {} THEN {"fail"}
    ELSE IF ok THEN {"wait"}
    ELSE {"fail", "wait"}

\* A mkdirp of ensureDirectories calls back.  When the last one has succeeded
\* the next step, formatGenerate, starts the tool in format mode.
MkdirpDone ==
    /\ pc = "mkdirp"
    /\ \E d \in pending, ok \in BOOLEAN :
        LET e == IF groupErr # NoErr THEN groupErr ELSE Err("mkdirp")
        IN  /\ pending' = pending \ {d}
            /\ \E out \in GroupOutcomes(ok, pending \ {d}, groupErr) :
                CASE out = "next" ->
                        /\ calls' = Append(calls, FormatGenerateCall)
                        /\ Await("fmtExec")
                        /\ groupErr' = groupErr
                  [] out = "wait" ->
                        /\ calls' = calls
                        /\ Await("mkdirp")
                        /\ groupErr' = IF ok THEN groupErr ELSE e
                  [] out = "fail" ->
                        /\ calls' = calls
                        /\ Fail(e)
                        /\ groupErr' = NoErr
    /\ UNCHANGED <<op, overrides, options, columns, fullTable, formatFile, dataFile,
                   format, imp, rows, details, files, origFormat>>
    /\ UNCHANGED argVars
    /\ UNCHANGED toolStdout
    /\ UNCHANGED twoVars
    /\ UNCHANGED readVars
    /\ UNCHANGED codecVars

\* formatGenerate without the return after callback(error): the error is
\* reported and the format file is read all the same.
FormatExecDoneNoReturn ==
    /\ pc = "fmtExec"
    /\ \E ok \in BOOLEAN :
        /\ calls' = Append(calls, [call |-> "fromFile", target |-> formatFile])
        /\ IF ok
           THEN /\ files' = files \cup {formatFile}
                /\ Await("fmtLoad")
           ELSE /\ files' = files
                /\ Fail(Err("formatExec"))
    /\ UNCHANGED <<op, overrides, options, columns, fullTable, formatFile, dataFile,
                   format, imp, rows, details, pending, groupErr, origFormat>>
    /\ UNCHANGED argVars
    /\ UNCHANGED toolStdout
    /\ UNCHANGED twoVars
    /\ UNCHANGED readVars
    /\ UNCHANGED codecVars

\* The callback of the tool run of formatGenerate: on success the format file
\* has been written and FormatFile.fromFile is started.
FormatExecDone ==
    /\ pc = "fmtExec"
    /\ \E ok \in BOOLEAN :
        IF ok
        THEN /\ files' = files \cup {formatFile}
             /\ calls' = Append(calls, [call |-> "fromFile", target |-> formatFile])
             /\ Await("fmtLoad")
        ELSE /\ \E wrote \in BOOLEAN : files' = IF wrote THEN files \cup {formatFile} ELSE files
             /\ calls' = calls
             /\ Fail(Err("formatExec"))
    /\ UNCHANGED <<op, overrides, options, columns, fullTable, formatFile, dataFile,
                   format, imp, rows, details, pending, groupErr, origFormat>>
    /\ UNCHANGED argVars
    /\ UNCHANGED toolStdout
    /\ UNCHANGED twoVars
    /\ UNCHANGED readVars
    /\ UNCHANGED codecVars

\* A column loop that looks the column up as the caller spelled it.
RECURSIVE ApplyColumnsCaseSensitive(_, _, _, _)
ApplyColumnsCaseSensitive(fields, origFieldNames, cols, i) ==
    IF i > Len(cols) THEN [fields |-> fields, missing |-> 0]
    ELSE LET dex == indexOf(origFieldNames, cols[i])
         IN  IF dex = 0 THEN [fields |-> fields, missing |-> i]
             ELSE ApplyColumnsCaseSensitive(
                      [fields EXCEPT ![dex].name = cols[i], ![dex].inImport = TRUE],
                      origFieldNames, cols, i + 1)

\* A column loop that renames the matched field and forgets to flag it.
RECURSIVE ApplyColumnsNoFlag(_, _, _, _)
ApplyColumnsNoFlag(fields, origFieldNames, cols, i) ==
    IF i > Len(cols) THEN [fields |-> fields, missing |-> 0]
    ELSE LET dex == indexOf(origFieldNames, toLowerCase(cols[i]))
         IN  IF dex = 0 THEN [fields |-> fields, missing |-> i]
             ELSE ApplyColumnsNoFlag([fields EXCEPT ![dex].name = cols[i]],
                                     origFieldNames, cols, i + 1)

\* A column loop that moves each matched field to the front of the descriptor.
RECURSIVE ApplyColumnsReorder(_, _, _, _)
ApplyColumnsReorder(fields, origFieldNames, cols, i) ==
    IF i > Len(cols) THEN [fields |-> fields, missing |-> 0]
    ELSE LET dex == indexOf(origFieldNames, toLowerCase(cols[i]))
             hit == [fields[dex] EXCEPT !.name = cols[i], !.inImport = TRUE]
             others(k) == k # dex
         IN  IF dex = 0 THEN [fields |-> fields, missing |-> i]
             ELSE ApplyColumnsReorder(
                      <<hit>> \o [k \in 1..(Len(fields) - 1) |->
                                      IF k < dex THEN fields[k] ELSE fields[k + 1]],
                      origFieldNames, cols, i + 1)

\* The column loop of prepareBulkInsert from column i on: the fields as
\* renamed and flagged so far, and the index of the column that stopped the
\* loop (0 when every column was found).  origFieldNames is computed once,
\* before the loop, from the names as loaded.
RECURSIVE ApplyColumns(_, _, _, _)
ApplyColumns(fields, origFieldNames, cols, i) ==
    IF i > Len(cols) THEN [fields |-> fields, missing |-> 0]
    ELSE LET dex == indexOf(origFieldNames, toLowerCase(cols[i]))
         IN  IF dex = 0 THEN [fields |-> fields, missing |-> i]
             ELSE ApplyColumns([fields EXCEPT ![dex].name = cols[i], ![dex].inImport = TRUE],
                               origFieldNames, cols, i + 1)

\* new ImportFile(bcp, format, table, filename, encoding)
ImportFile(b, fmt, table, filename) ==
    [t |-> "ImportFile", format |-> fmt, table |-> table, filename |-> filename,
     encoding |-> IF Truthy(b.unicode) THEN "ucs2" ELSE "ascii"]

\* A third step that constructs the handle before it looks at the columns.
PrepareStepHandleFirst(f) ==
    LET r == ApplyColumns(f.fields, [k \in 1..Len(f.fields) |-> toLowerCase(f.fields[k].name)],
                          columns, 1)
        g == [f EXCEPT !.fields = r.fields]
    IN  [format |-> g,
         err |-> IF r.missing # 0 THEN ColumnError(fullTable, columns[r.missing]) ELSE NoErr,
         imp |-> ImportFile(bcp, g, TableName, options.importFile)]

\* The third step of prepareBulkInsert on the loaded descriptor f: the format
\* object after the loop, the error the step calls back with (NoErr when none)
\* and the handle it constructed (Null when none).
PrepareStep(f) ==
    LET r == ApplyColumns(f.fields, [k \in 1..Len(f.fields) |-> toLowerCase(f.fields[k].name)],
                          columns, 1)
        g == [f EXCEPT !.fields = r.fields]
    IN  IF r.missing # 0
        THEN [format |-> g, err |-> ColumnError(fullTable, columns[r.missing]), imp |-> Null]
        ELSE [format |-> g, err |-> NoErr,
              imp |-> ImportFile(bcp, g, TableName, options.importFile)]

\* FormatFile.fromFile calls back.  bulkExport then starts the tool in "out"
\* mode; prepareBulkInsert runs its column loop and ends.
FormatLoadDone ==
    /\ pc = "fmtLoad"
    /\ \E ok \in BOOLEAN, fs \in Descriptors :
        LET f == [filename |-> formatFile, fields |-> fs, loaded |-> TRUE]
        IN  IF ~ok
            THEN /\ Fail(Err("fromFile"))
                 /\ UNCHANGED <<format, imp, calls, origFormat>>
            ELSE IF op = "bulkExport"
            THEN /\ format' = f
                 /\ calls' = Append(calls, ExecCall("out", fullTable, dataFile, NoPath,
                                                    getCommonArgs(bcp, FALSE)))
                 /\ Await("exec")
                 /\ UNCHANGED <<imp, origFormat>>
            ELSE LET r == PrepareStep(f)
                 IN  /\ origFormat' = f
                     /\ format' = r.format
                     /\ imp' = r.imp
                     /\ calls' = IF r.imp # Null
                                 THEN Append(calls, [call |-> "ImportFile", target |-> r.imp.filename])
                                 ELSE calls
                     /\ IF r.err # NoErr THEN Fail(r.err) ELSE Succeed(<<r.imp>>)
    /\ UNCHANGED <<op, overrides, options, columns, fullTable, formatFile, dataFile,
                   rows, details, pending, groupErr, files>>
    /\ UNCHANGED argVars
    /\ UNCHANGED toolStdout
    /\ UNCHANGED twoVars
    /\ UNCHANGED readVars
    /\ UNCHANGED codecVars

\* A cleanup step that deletes whatever keepFiles says.
ShouldKeepNever(o) == FALSE

\* if (options.keepFiles) in the cleanup step
ShouldKeep(o) == o.keepFiles

\* A cleanup that deletes the format file only.
CleanupCallsFormatOnly(ff, df) == <<UnlinkCall(ff)>>

\* The two tasks handed to Athena.parallel by the cleanup step.
CleanupCalls(ff, df) == <<UnlinkCall(ff), UnlinkCall(df)>>

\* The cleanup step (last step of bulkExport and of bulkInsert), entered with
\* the calls logged so far and the arguments a successful callback would get.
\* A cleanup step that, asked to keep the files, does not call the step's callback.
CleanupStepKeepSilent(soFar, rest) ==
    IF ShouldKeep(options)
    THEN /\ calls' = soFar
         /\ pending' = {}
         /\ Await("unlink")
    ELSE /\ calls' = soFar \o CleanupCalls(formatFile, dataFile)
         /\ pending' = Range(CleanupCalls(formatFile, dataFile))
         /\ Await("unlink")

CleanupStep(soFar, rest) ==
    IF ShouldKeep(options)
    THEN /\ calls' = soFar
         /\ pending' = {}
         /\ Succeed(rest)
    ELSE /\ calls' = soFar \o CleanupCalls(formatFile, dataFile)
         /\ pending' = Range(CleanupCalls(formatFile, dataFile))
         /\ Await("unlink")

\* A fourth step that keeps the output and does not look for the summary.
ParseDetailsStdoutOnly(d, stdout) == [d EXCEPT !.stdout = Str(stdout)]

\* /(\d+) rows copied\./.exec(stdout); if (match) details.rowCount = Number(match[1])
ParseDetails(d, stdout) ==
    [d EXCEPT !.stdout = Str(stdout),
              !.rowCount = IF HasRowCount(stdout) THEN RowCount(stdout) ELSE d.rowCount]

\* A fourth step that starts the cleanup together with the read.
ExecDoneCleanupEarly ==
    /\ pc = "exec"
    /\ \E ok \in BOOLEAN, stdout \in Stdouts :
        IF ~ok
        THEN /\ Fail(Err("exec"))
             /\ UNCHANGED toolStdout
             /\ \E wrote \in BOOLEAN :
                  files' = IF wrote /\ op = "bulkExport" THEN files \cup {dataFile} ELSE files
             /\ UNCHANGED <<rows, details, pending, calls>>
        ELSE IF op = "bulkInsert"
        THEN /\ CleanupStep(calls, <<>>)
             /\ toolStdout' = Str(stdout)
             /\ UNCHANGED <<rows, details, files>>
        ELSE /\ details' = ParseDetails(details, stdout)
             /\ toolStdout' = Str(stdout)
             /\ files' = files \cup {dataFile}
             /\ IF options.read
                THEN /\ calls' = Append(calls, [call |-> "readFile", target |-> dataFile])
                                   \o CleanupCalls(formatFile, dataFile)
                     /\ Await("readFile")
                     /\ UNCHANGED <<rows, pending>>
                ELSE /\ rows' = Null
                     /\ CleanupStep(calls, <<Null, ParseDetails(details, stdout)>>)
    /\ UNCHANGED <<op, overrides, options, columns, fullTable, formatFile, dataFile,
                   format, imp, groupErr, origFormat>>
    /\ UNCHANGED argVars
    /\ UNCHANGED twoVars
    /\ UNCHANGED readVars
    /\ UNCHANGED codecVars

\* The tool run in "out" or "in" mode calls back.
ExecDone ==
    /\ pc = "exec"
    /\ \E ok \in BOOLEAN, stdout \in Stdouts :
        IF ~ok
        THEN /\ Fail(Err("exec"))
             /\ UNCHANGED toolStdout
             /\ \E wrote \in BOOLEAN :
                  files' = IF wrote /\ op = "bulkExport" THEN files \cup {dataFile} ELSE files
             /\ UNCHANGED <<rows, details, pending, calls>>
        ELSE IF op = "bulkInsert"
        THEN /\ CleanupStep(calls, <<>>)
             /\ toolStdout' = Str(stdout)
             /\ UNCHANGED <<rows, details, files>>
        ELSE /\ details' = ParseDetails(details, stdout)
             /\ toolStdout' = Str(stdout)
             /\ files' = files \cup {dataFile}
             /\ IF options.read
                THEN /\ calls' = Append(calls, [call |-> "readFile", target |-> dataFile])
                     /\ Await("readFile")
                     /\ UNCHANGED <<rows, pending>>
                ELSE /\ rows' = Null
                     /\ CleanupStep(calls, <<Null, ParseDetails(details, stdout)>>)
    /\ UNCHANGED <<op, overrides, options, columns, fullTable, formatFile, dataFile,
                   format, imp, groupErr, origFormat>>
    /\ UNCHANGED argVars
    /\ UNCHANGED twoVars
    /\ UNCHANGED readVars
    /\ UNCHANGED codecVars

Rows(rs) == [t |-> "array", v |-> rs]

\* Fs.readFile of readExport calls back: the scan loop runs on the data read
\* and the cleanup step follows.
ReadDone ==
    /\ pc = "readFile"
    /\ \E ok \in BOOLEAN, data \in ExportData :
        IF ~ok
        THEN /\ Fail(Err("readFile"))
             /\ UNCHANGED <<rows, pending, calls>>
        ELSE /\ rows' = Rows(readExport(data, format))
             /\ CleanupStep(calls, <<Rows(readExport(data, format)), details>>)
    /\ UNCHANGED <<op, overrides, options, columns, fullTable, formatFile, dataFile,
                   format, imp, details, groupErr, files, origFormat>>
    /\ UNCHANGED argVars
    /\ UNCHANGED toolStdout
    /\ UNCHANGED twoVars
    /\ UNCHANGED readVars
    /\ UNCHANGED codecVars

\* An Fs.unlink of the cleanup step calls back; it can succeed only on a file
\* that is there, and then the file is gone.
UnlinkDone ==
    /\ pc = "unlink"
    /\ \E u \in pending, ok \in BOOLEAN :
        LET e == IF groupErr # NoErr THEN groupErr ELSE Err("unlink")
        IN  /\ ok => u.target \in files
            /\ files' = IF ok THEN files \ {u.target} ELSE files
            /\ pending' = pending \ {u}
            /\ \E out \in GroupOutcomes(ok, pending \ {u}, groupErr) :
                CASE out = "next" ->
                        /\ Succeed(IF op = "bulkExport" THEN <<rows, details>> ELSE <<>>)
                        /\ groupErr' = groupErr
                  [] out = "wait" ->
                        /\ Await("unlink")
                        /\ groupErr' = IF ok THEN groupErr ELSE e
                  [] out = "fail" ->
                        /\ Fail(e)
                        /\ groupErr' = NoErr
    /\ UNCHANGED <<op, overrides, options, columns, fullTable, formatFile, dataFile,
                   format, imp, rows, details, calls, origFormat>>
    /\ UNCHANGED argVars
    /\ UNCHANGED toolStdout
    /\ UNCHANGED twoVars
    /\ UNCHANGED readVars
    /\ UNCHANGED codecVars

\* A sub-task of a parallel group that has already reported its failure calls
\* back: nothing listens any more.
LateDone ==
    /\ pc = "done"
    /\ \E u \in pending, ok \in BOOLEAN :
        /\ ok /\ u.call = "unlink" => u.target \in files
        /\ files' = IF ok /\ u.call = "unlink" THEN files \ {u.target} ELSE files
        /\ pending' = pending \ {u}
    /\ UNCHANGED <<op, pc, overrides, options, columns, fullTable, formatFile, dataFile,
                   format, imp, rows, details, groupErr, hlog, calls, cb, origFormat>>
    /\ UNCHANGED argVars
    /\ UNCHANGED toolStdout
    /\ UNCHANGED twoVars
    /\ UNCHANGED readVars
    /\ UNCHANGED codecVars

Init ==
    /\ bcp = Bcp(NoOptions)
    /\ omitFormat = FALSE
    /\ args = <<>>
    /\ apc = "ready"
    /\ Idle
    /\ TwoIdle
    /\ ReaderIdle
    /\ CodecIdle

Next ==
    \/ StartBulkExport
    \/ StartBulkInsert
    \/ StartPrepareBulkInsert
    \/ MkdirpDone
    \/ FormatExecDone
    \/ FormatLoadDone
    \/ ExecDone
    \/ ReadDone
    \/ UnlinkDone
    \/ LateDone

Spec == Init /\ [][Next]_vars

\* The operations when every external call that was made completes: the
\* callback of an outstanding mkdirp, tool run, descriptor load, file read or
\* unlink is eventually invoked.
Completions ==
    \/ MkdirpDone
    \/ FormatExecDone
    \/ FormatLoadDone
    \/ ExecDone
    \/ ReadDone
    \/ UnlinkDone
    \/ LateDone

SpecLive == Init /\ [][Next]_vars /\ WF_vars(Completions)

\* The same operations on instances that name a database, a schema, or ask
\* for quoted identifiers.
TableOptions ==
    {NoOptions,
     [database |-> Str(<<"d">>), schema |-> Str(<<"s">>)],
     [database |-> Str(<<"d", "\"">>), quotedIdentifiers |-> Bool(TRUE)],
     [schema |-> Str(<<>>), quotedIdentifiers |-> Bool(TRUE)]}

InitTable ==
    /\ \E o \in TableOptions : bcp = Bcp(o)
    /\ omitFormat = FALSE
    /\ args = <<>>
    /\ apc = "ready"
    /\ Idle
    /\ TwoIdle
    /\ ReaderIdle
    /\ CodecIdle

SpecTable == InitTable /\ [][Next]_vars

-----------------------------------------------------------------------------
(* Bcp.readExport step by step: Fs.readFile calls back, then each pass of    *)
(* the while loop is one step.                                               *)

MaxScanLen == 4      \* characters of a buffer handed to readExport
MaxScanFields == 2   \* fields of a descriptor handed to readExport

ScanChars == {"1", "\t", "\n"}

\* The buffer of the worked example: 42 TAB 1 LF 7 TAB 0 LF
ExampleBuffer == <<"4", "2", "\t", "1", "\n", "7", "\t", "0", "\n">>

ScanBuffers == StringsUpTo(ScanChars, MaxScanLen) \cup {ExampleBuffer}

\* Terminators of a field: empty, one character, two characters.
ScanTerminators == {<<>>, <<"\t">>, <<"\n">>, <<"\t", "\t">>}

\* Field c of a scanned descriptor is named f0, f1, ... ; the first is an
\* integer column, the second a bit column, any further one a string column.
ScanField(c, t) ==
    [name |-> <<"f", DigitChar(c - 1)>>,
     type |-> CASE c = 1 -> "SQLINT" [] c = 2 -> "SQLBIT" [] OTHER -> "SQLNCHAR",
     terminator |-> t, inImport |-> FALSE]

ScanDescriptors ==
    UNION {{[filename |-> UserFormatFile,
             fields |-> [c \in 1..n |-> ScanField(c, ts[c])],
             loaded |-> TRUE] : ts \in [1..n -> ScanTerminators]} : n \in 0..MaxScanFields}

InitRead ==
    /\ bcp = Bcp(NoOptions)
    /\ omitFormat = FALSE
    /\ args = <<>>
    /\ apc = "ready"
    /\ Idle
    /\ TwoIdle
    /\ CodecIdle
    /\ rdata \in ScanBuffers
    /\ rformat \in ScanDescriptors
    /\ ri = 1
    /\ rrows = <<>>
    /\ rpc = "reading"
    /\ rcb = <<>>

\* The callback of Fs.readFile: an error goes to the caller's callback,
\* otherwise the scan starts with no rows at the first character.
ReadFileDone ==
    /\ rpc = "reading"
    /\ \E ok \in BOOLEAN :
        IF ~ok
        THEN /\ rcb' = Append(rcb, [err |-> Err("readFile"), rest |-> <<>>])
             /\ rpc' = "done"
        ELSE /\ rpc' = "scanning"
             /\ UNCHANGED rcb
    /\ UNCHANGED <<rdata, rformat, ri, rrows>>
    /\ UNCHANGED argVars
    /\ UNCHANGED twoVars
    /\ UNCHANGED opVars
    /\ UNCHANGED codecVars

\* One pass of the while loop: the inner for loop runs over the fields; a
\* terminator that is not found leaves the loop and hands the rows so far to
\* the callback, otherwise the row is pushed and the loop test comes next.
\* (A pass that pushes a row without consuming a character finds the loop test
\* unchanged; such a run is followed here until it holds more rows than the
\* buffer has characters.)
ScanPass ==
    /\ rpc = "scanning"
    /\ ri <= Len(rdata)
    /\ Len(rrows) <= Len(rdata)
    /\ LET r == ScanRow(rdata, rformat.fields, 1, ri, [n \in {} |-> Null])
       IN  /\ ri' = r.i
           /\ IF r.ok
              THEN /\ rrows' = Append(rrows, r.o)
                   /\ UNCHANGED <<rpc, rcb>>
              ELSE /\ rcb' = Append(rcb, [err |-> Null, rest |-> <<Rows(rrows)>>])
                   /\ rpc' = "done"
                   /\ UNCHANGED rrows
    /\ UNCHANGED <<rdata, rformat>>
    /\ UNCHANGED argVars
    /\ UNCHANGED twoVars
    /\ UNCHANGED opVars
    /\ UNCHANGED codecVars

\* The loop test fails: the rows go to the callback.
ScanEnd ==
    /\ rpc = "scanning"
    /\ ri > Len(rdata)
    /\ rcb' = Append(rcb, [err |-> Null, rest |-> <<Rows(rrows)>>])
    /\ rpc' = "done"
    /\ UNCHANGED <<rdata, rformat, ri, rrows>>
    /\ UNCHANGED argVars
    /\ UNCHANGED twoVars
    /\ UNCHANGED opVars
    /\ UNCHANGED codecVars

NextRead ==
    \/ ReadFileDone
    \/ ScanPass
    \/ ScanEnd

SpecRead == InitRead /\ [][NextRead]_vars

-----------------------------------------------------------------------------
(* fieldDeserialize applied to one slice and one field. *)

MaxValueLen == 2   \* characters of a slice handed to fieldDeserialize

CodecChars == {"1", "0", "a", NUL}

\* The tags of Bcp.typesMap, two tags it does not list, and a name every
\* object inherits.
TypeTags == {"SQLBIT", "SQLTINYINT", "SQLSMALLINT", "SQLINT", "SQLBIGINT", "SQLFLT4",
             "SQLFLT8", "SQLDATETIME", "SQLDATETIM4", "SQLDATETIM8",
             "SQLNCHAR", "SQLUNIQUEID", "toString"}

InitCodec ==
    /\ bcp = Bcp(NoOptions)
    /\ omitFormat = FALSE
    /\ args = <<>>
    /\ apc = "ready"
    /\ Idle
    /\ TwoIdle
    /\ ReaderIdle
    /\ dvalue \in StringsUpTo(CodecChars, MaxValueLen)
    /\ \E tag \in TypeTags :
         dfield = [name |-> <<"f", "0">>, type |-> tag, terminator |-> <<"\t">>,
                   inImport |-> FALSE]
    /\ dresult = Undef
    /\ dpc = "ready"

Deserialize ==
    /\ dpc = "ready"
    /\ dresult' = fieldDeserialize(dvalue, dfield)
    /\ dpc' = "decoded"
    /\ UNCHANGED <<dvalue, dfield>>
    /\ UNCHANGED argVars
    /\ UNCHANGED twoVars
    /\ UNCHANGED opVars
    /\ UNCHANGED readVars

NextCodec == Deserialize

SpecCodec == InitCodec /\ [][NextCodec]_vars

-----------------------------------------------------------------------------
(* Two bulkExport calls on the one instance, their callbacks interleaved.   *)
(* Each call has its own closure (ops[k]): options, formatFile, exportFile,  *)
(* format, rows, details.  The instance is only read.  The disk is shared:   *)
(* a file holds what the tool run that wrote it put there, and a read or a   *)
(* deletion of a path that is not on disk fails.                             *)

TwoOverrides ==
    {NoOptions, [read |-> FALSE],
     [formatFile |-> UserFormatFile, exportFile |-> UserExportFile]}

TwoDescriptors == {Descriptor(<< <<"a">> >>), Descriptor(<< <<"a">>, <<"b">> >>)}

TwoData == {<<>>, <<"1", "\n">>}

WriteFile(d, path, content) ==
    [p \in DOMAIN d \cup {path} |-> IF p = path THEN content ELSE d[p]]

RemoveFile(d, path) == [p \in DOMAIN d \ {path} |-> d[p]]

\* The final function of the waterfall of one call.
FailOp(r, e) ==
    [r EXCEPT !.hlog = e, !.cb = Append(@, [err |-> e, rest |-> <<>>]), !.pc = "done"]

SucceedOp(r) ==
    [r EXCEPT !.cb = Append(@, [err |-> Null, rest |-> <<r.rows, r.details>>]),
              !.pc = "done"]

\* The cleanup step of one call.
CleanupOp(r) ==
    IF ShouldKeep(r.options) THEN SucceedOp(r)
    ELSE [r EXCEPT !.pending = Range(CleanupCalls(r.formatFile, r.exportFile)),
                   !.pc = "unlink"]

\* The error of a file system call on a path: ENOENT when the path is not on disk.
FsErr(path, kind) == IF path \in DOMAIN disk THEN Err(kind) ELSE Err("enoent")

\* bulkExport is called: a temp base is drawn that no other running call has.
TwoStart(k) ==
    /\ ops[k].pc = "idle"
    /\ \E ov \in TwoOverrides, base \in TempBases :
        LET o == ImplyKeep(mergeOptions(ExportDefaults, ov))
            ff == OptionOr(o, "formatFile", tempFile(base, "_format.xml"))
            ef == OptionOr(o, "exportFile", tempFile(base, "_export.dat"))
        IN  /\ \A j \in Calls \ {k} : ops[j].base # base
            /\ ops' = [ops EXCEPT ![k] =
                          [@ EXCEPT !.pc = "mkdirp", !.base = base, !.overrides = ov,
                                    !.options = o, !.formatFile = ff, !.exportFile = ef,
                                    !.details = [formatFile |-> ff, exportFile |-> ef,
                                                 rowCount |-> 0, stdout |-> Null],
                                    !.pending = Range(MkdirpCalls(Dirs(ff, ef)))]]
    /\ UNCHANGED disk
    /\ UNCHANGED argVars
    /\ UNCHANGED opVars
    /\ UNCHANGED readVars
    /\ UNCHANGED codecVars

TwoMkdirpDone(k) ==
    /\ ops[k].pc = "mkdirp"
    /\ \E d \in ops[k].pending, ok \in BOOLEAN :
        LET r == [ops[k] EXCEPT !.pending = @ \ {d}]
            e == IF r.groupErr # NoErr THEN r.groupErr ELSE Err("mkdirp")
        IN  \E out \in GroupOutcomes(ok, r.pending, r.groupErr) :
                ops' = [ops EXCEPT ![k] =
                    CASE out = "next" -> [r EXCEPT !.pc = "fmtExec"]
                      [] out = "wait" -> [r EXCEPT !.groupErr = IF ok THEN @ ELSE e]
                      [] out = "fail" -> FailOp([r EXCEPT !.groupErr = NoErr], e)]
    /\ UNCHANGED disk
    /\ UNCHANGED argVars
    /\ UNCHANGED opVars
    /\ UNCHANGED readVars
    /\ UNCHANGED codecVars

\* The tool run of formatGenerate calls back; on success it has written the
\* descriptor of the table to the format file of this call.
TwoFormatExecDone(k) ==
    /\ ops[k].pc = "fmtExec"
    /\ \E ok \in BOOLEAN, d \in TwoDescriptors :
        IF ok
        THEN /\ disk' = WriteFile(disk, ops[k].formatFile,
                                  [kind |-> "format", v |-> d, by |-> k])
             /\ ops' = [ops EXCEPT ![k] = [@ EXCEPT !.pc = "fmtLoad", !.wroteFormat = d]]
        ELSE /\ disk' = disk
             /\ ops' = [ops EXCEPT ![k] = FailOp(@, Err("formatExec"))]
    /\ UNCHANGED argVars
    /\ UNCHANGED opVars
    /\ UNCHANGED readVars
    /\ UNCHANGED codecVars

\* FormatFile.fromFile calls back with what the format file holds.
TwoFormatLoadDone(k) ==
    /\ ops[k].pc = "fmtLoad"
    /\ LET ff == ops[k].formatFile
       IN  \E ok \in BOOLEAN :
            IF ok /\ ff \in DOMAIN disk /\ disk[ff].kind = "format"
            THEN ops' = [ops EXCEPT ![k] =
                            [@ EXCEPT !.format = [filename |-> ff, fields |-> disk[ff].v,
                                                  loaded |-> TRUE],
                                      !.pc = "exec"]]
            ELSE ops' = [ops EXCEPT ![k] = FailOp(@, FsErr(ff, "fromFile"))]
    /\ UNCHANGED disk
    /\ UNCHANGED argVars
    /\ UNCHANGED opVars
    /\ UNCHANGED readVars
    /\ UNCHANGED codecVars

\* The tool run in "out" mode calls back; on success it has written the
\* exported data to the export file of this call.
TwoExecDone(k) ==
    /\ ops[k].pc = "exec"
    /\ \E ok \in BOOLEAN, stdout \in TwoStdouts, data \in TwoData :
        IF ~ok
        THEN /\ disk' = disk
             /\ ops' = [ops EXCEPT ![k] = FailOp(@, Err("exec"))]
        ELSE LET r == [ops[k] EXCEPT !.details = ParseDetails(@, stdout),
                                     !.wroteData = data, !.wroteStdout = stdout]
             IN  /\ disk' = WriteFile(disk, r.exportFile,
                                      [kind |-> "data", v |-> data, by |-> k])
                 /\ ops' = [ops EXCEPT ![k] =
                               IF r.options.read THEN [r EXCEPT !.pc = "readFile"]
                               ELSE CleanupOp([r EXCEPT !.rows = Null])]
    /\ UNCHANGED argVars
    /\ UNCHANGED opVars
    /\ UNCHANGED readVars
    /\ UNCHANGED codecVars

\* Fs.readFile of readExport calls back with what the export file holds.
TwoReadDone(k) ==
    /\ ops[k].pc = "readFile"
    /\ LET ef == ops[k].exportFile
       IN  \E ok \in BOOLEAN :
            IF ok /\ ef \in DOMAIN disk /\ disk[ef].kind = "data"
            THEN ops' = [ops EXCEPT ![k] =
                            CleanupOp([@ EXCEPT !.rows = Rows(readExport(disk[ef].v,
                                                                         ops[k].format))])]
            ELSE ops' = [ops EXCEPT ![k] = FailOp(@, FsErr(ef, "readFile"))]
    /\ UNCHANGED disk
    /\ UNCHANGED argVars
    /\ UNCHANGED opVars
    /\ UNCHANGED readVars
    /\ UNCHANGED codecVars

\* An Fs.unlink of the cleanup step calls back.
TwoUnlinkDone(k) ==
    /\ ops[k].pc = "unlink"
    /\ \E u \in ops[k].pending, ok \in BOOLEAN :
        LET r == [ops[k] EXCEPT !.pending = @ \ {u}]
            e == IF r.groupErr # NoErr THEN r.groupErr ELSE FsErr(u.target, "unlink")
        IN  /\ ok => u.target \in DOMAIN disk
            /\ disk' = IF ok THEN RemoveFile(disk, u.target) ELSE disk
            /\ \E out \in GroupOutcomes(ok, r.pending, r.groupErr) :
                ops' = [ops EXCEPT ![k] =
                    CASE out = "next" -> SucceedOp(r)
                      [] out = "wait" -> [r EXCEPT !.groupErr = IF ok THEN @ ELSE e]
                      [] out = "fail" -> FailOp([r EXCEPT !.groupErr = NoErr], e)]
    /\ UNCHANGED argVars
    /\ UNCHANGED opVars
    /\ UNCHANGED readVars
    /\ UNCHANGED codecVars

\* An Fs.unlink of a cleanup that has already reported its failure calls back.
TwoLateDone(k) ==
    /\ ops[k].pc = "done"
    /\ \E u \in ops[k].pending, ok \in BOOLEAN :
        /\ ok => u.target \in DOMAIN disk
        /\ disk' = IF ok THEN RemoveFile(disk, u.target) ELSE disk
        /\ ops' = [ops EXCEPT ![k] = [@ EXCEPT !.pending = @ \ {u}]]
    /\ UNCHANGED argVars
    /\ UNCHANGED opVars
    /\ UNCHANGED readVars
    /\ UNCHANGED codecVars

InitTwo ==
    /\ bcp = Bcp(NoOptions)
    /\ omitFormat = FALSE
    /\ args = <<>>
    /\ apc = "ready"
    /\ Idle
    /\ TwoIdle
    /\ ReaderIdle
    /\ CodecIdle

NextTwo ==
    \E k \in Calls :
        \/ TwoStart(k)
        \/ TwoMkdirpDone(k)
        \/ TwoFormatExecDone(k)
        \/ TwoFormatLoadDone(k)
        \/ TwoExecDone(k)
        \/ TwoReadDone(k)
        \/ TwoUnlinkDone(k)
        \/ TwoLateDone(k)

SpecTwo == InitTwo /\ [][NextTwo]_vars

-----------------------------------------------------------------------------
(* Claims about the pipelines. *)

HasCall(c) == \E k \in 1..Len(calls) : calls[k] = c

UnlinkIssued == \E k \in 1..Len(calls) : calls[k].call = "unlink"

ExecIssued == \E k \in 1..Len(calls) : calls[k].call = "exec"

\* The step of its pipeline an external call belongs to.
CallRank(c) ==
    CASE c.call = "mkdirp" -> 1
      [] c.call = "exec" /\ c.mode = "format" -> 2
      [] c.call = "fromFile" -> 3
      [] c.call = "exec" /\ c.mode # "format" -> 4
      [] c.call = "readFile" -> 5
      [] c.call = "ImportFile" -> 5
      [] c.call = "unlink" -> 6

\* The step of its pipeline a failure comes from.
FailRank(e) ==
    CASE e.kind = "mkdirp" -> 1
      [] e.kind = "formatExec" -> 2
      [] e.kind = "fromFile" -> 3
      [] e.kind = "column" -> 4
      [] e.kind = "exec" -> 4
      [] e.kind = "readFile" -> 5
      [] e.kind = "unlink" -> 6

Succeeded == pc = "done" /\ hlog = NoErr

\* C1: in each of the three operations, once a step has reported a failure the
\* caller's callback has been invoked with exactly that failure, every external
\* call started belongs to the failing step or an earlier one, and from then on
\* no call is started and the descriptor is not touched.
C1_FailureStopsPipeline ==
    /\ [](hlog # NoErr =>
            /\ pc = "done"
            /\ cb = <<[err |-> hlog, rest |-> <<>>]>>
            /\ \A k \in 1..Len(calls) : CallRank(calls[k]) <= FailRank(hlog))
    /\ [][(hlog # NoErr \/ groupErr # NoErr) =>
            (calls' = calls /\ format' = format /\ cb' \in {cb, <<[err |-> hlog', rest |-> <<>>]>>})]_vars

C1_Witness ==
    /\ op = "bulkExport"
    /\ hlog = Err("formatExec")
    /\ cb = <<[err |-> Err("formatExec"), rest |-> <<>>]>>

\* Every step before the cleanup step has succeeded.
CleanupReached == pc \in {"unlink", "done"} /\ hlog.kind \in {"none", "unlink"}

\* C2: in bulkExport and bulkInsert an unlink is issued if and only if every
\* step before cleanup succeeded and the effective keepFiles is false; while no
\* unlink has been issued no file disappears.
C2_DeletionOnlyOnSuccess ==
    /\ [](op \in {"bulkExport", "bulkInsert"} =>
            (UnlinkIssued <=> (CleanupReached /\ ~options.keepFiles)))
    /\ [][~UnlinkIssued' => files \subseteq files']_vars

C2_Witness ==
    /\ op = "bulkExport"
    /\ hlog = Err("readFile")
    /\ ~options.keepFiles
    /\ ~UnlinkIssued
    /\ {formatFile, dataFile} \subseteq files

\* C3: a bulkExport called with read disabled never issues an unlink, whatever
\* keepFiles the caller gave, and on success both files are still there.
C3_ReadFalseKeepsFiles ==
    (op = "bulkExport" /\ "read" \in DOMAIN overrides /\ ~overrides["read"]) =>
        /\ ~UnlinkIssued
        /\ Succeeded => {formatFile, dataFile} \subseteq files

C3_Witness ==
    /\ op = "bulkExport"
    /\ overrides = [read |-> FALSE, keepFiles |-> FALSE]
    /\ Succeeded
    /\ {formatFile, dataFile} \subseteq files

\* The unlink of path p has called back with an error.
UnlinkFailed(p) == HasCall(UnlinkCall(p)) /\ UnlinkCall(p) \notin pending /\ p \in files

\* C4: when cleanup runs, both unlinks are started; nothing is reported while
\* the group is still undecided; success is reported only when both files are
\* gone and no unlink is outstanding; and a finished operation one of whose
\* unlinks failed has reported the failure.
C4_ParallelCleanup ==
    (op \in {"bulkExport", "bulkInsert"} /\ UnlinkIssued) =>
        /\ HasCall(UnlinkCall(formatFile)) /\ HasCall(UnlinkCall(dataFile))
        /\ pc = "unlink" => cb = <<>>
        /\ Succeeded => (pending = {} /\ formatFile \notin files /\ dataFile \notin files)
        /\ (pc = "done" /\ (UnlinkFailed(formatFile) \/ UnlinkFailed(dataFile))) =>
                (hlog = Err("unlink") /\ cb = <<[err |-> Err("unlink"), rest |-> <<>>]>>)

C4_Witness ==
    /\ op = "bulkExport"
    /\ pc = "done"
    /\ pending = {}
    /\ formatFile \notin files
    /\ UnlinkFailed(dataFile)
    /\ hlog = Err("unlink")

\* C5 as stated: a prepareBulkInsert that fails on an unknown column has
\* invoked no external process and written no file.
C5_Original ==
    (op = "prepareBulkInsert" /\ hlog.kind = "column") => (~ExecIssued /\ files = {})

\* C5 (amended): a prepareBulkInsert that fails on an unknown column has run
\* exactly the directory creation, the format generation (whose format file is
\* written) and the descriptor load; it has constructed no import handle and
\* written no import file.
C5_ColumnCheckAfterFormat ==
    (op = "prepareBulkInsert" /\ hlog.kind = "column") =>
        /\ calls = MkdirpCalls(Dirs(formatFile, dataFile))
                     \o <<FormatGenerateCall, [call |-> "fromFile", target |-> formatFile]>>
        /\ formatFile \in files
        /\ dataFile \notin files
        /\ imp = Null

C5_Witness ==
    /\ op = "prepareBulkInsert"
    /\ hlog.kind = "column"
    /\ columns = <<<<"a">>, <<"c">>>>
    /\ formatFile \in files

\* No field of the loaded descriptor has the name of column c, case ignored.
Missing(c) ==
    \A k \in 1..Len(origFormat.fields) :
        toLowerCase(origFormat.fields[k].name) # toLowerCase(c)

\* C6: when some requested column matches no field of the loaded descriptor,
\* prepareBulkInsert ends with the error naming the qualified table and the
\* first such column in the caller's order; no handle is constructed and the
\* callback gets the failure alone.
C6_FirstMissingColumn ==
    (op = "prepareBulkInsert" /\ origFormat.loaded
        /\ \E i \in 1..Len(columns) : Missing(columns[i])) =>
        LET first == CHOOSE i \in 1..Len(columns) :
                        Missing(columns[i]) /\ \A j \in 1..(i - 1) : ~Missing(columns[j])
        IN  /\ pc = "done"
            /\ hlog = [kind |-> "column",
                       message |-> fullTable \o DOES_NOT_CONTAIN \o columns[first]]
            /\ imp = Null
            /\ ~HasCall([call |-> "ImportFile", target |-> dataFile])
            /\ cb = <<[err |-> hlog, rest |-> <<>>]>>

C6_Witness ==
    /\ op = "prepareBulkInsert"
    /\ origFormat.loaded
    /\ columns = <<<<"B">>, <<"c">>>>
    /\ ~Missing(columns[1])
    /\ hlog.kind = "column"

\* C7 as stated: after a successful prepareBulkInsert every column has a field
\* whose loaded name equals it, case ignored, whose name is now the column as
\* spelled and whose inImport is true.
C7_Original ==
    (op = "prepareBulkInsert" /\ Succeeded) =>
        \A i \in 1..Len(columns) :
            \E k \in 1..Len(format.fields) :
                /\ toLowerCase(origFormat.fields[k].name) = toLowerCase(columns[i])
                /\ format.fields[k].name = columns[i]
                /\ format.fields[k].inImport

\* The last column of the caller's list that equals column i, case ignored.
LastSpelling(i) ==
    columns[CHOOSE j \in i..Len(columns) :
                /\ toLowerCase(columns[j]) = toLowerCase(columns[i])
                /\ \A m \in (j + 1)..Len(columns) :
                      toLowerCase(columns[m]) # toLowerCase(columns[i])]

\* C7 (amended): after a successful prepareBulkInsert every column has a field
\* whose loaded name equals it, case ignored, whose inImport is true and whose
\* name is now the spelling of the last column of the list that equals it, case
\* ignored; the handle holds the descriptor with all columns processed.
C7_ColumnsRenamedAndFlagged ==
    (op = "prepareBulkInsert" /\ Succeeded) =>
        /\ \A i \in 1..Len(columns) :
            \E k \in 1..Len(format.fields) :
                /\ toLowerCase(origFormat.fields[k].name) = toLowerCase(columns[i])
                /\ format.fields[k].name = LastSpelling(i)
                /\ format.fields[k].inImport
        /\ imp # Null
        /\ imp.format = format

C7_Witness ==
    /\ op = "prepareBulkInsert"
    /\ Succeeded
    /\ columns = <<<<"B">>, <<"A">>>>
    /\ \E k \in 1..Len(format.fields) : format.fields[k].name = <<"B">>

\* C8: the callback of bulkExport is given rows and details only when every
\* step, cleanup included, succeeded; otherwise it is given the failure alone,
\* also when the export file had been read before a deletion failed.
C8_NoPartialSuccess ==
    (op = "bulkExport" /\ cb # <<>>) =>
        /\ Len(cb) = 1
        /\ IF cb[1].err = Null
           THEN /\ cb[1].rest = <<rows, details>>
                /\ hlog = NoErr
                /\ options.read => rows.t = "array"
                /\ ~options.keepFiles =>
                        (pending = {} /\ formatFile \notin files /\ dataFile \notin files)
           ELSE /\ cb[1].err = hlog
                /\ hlog # NoErr
                /\ cb[1].rest = <<>>

C8_Witness ==
    /\ op = "bulkExport"
    /\ hlog = Err("unlink")
    /\ rows.t = "array"
    /\ Len(rows.v) > 0
    /\ cb = <<[err |-> Err("unlink"), rest |-> <<>>]>>

-----------------------------------------------------------------------------
(* Claims about getCommonArgs. *)

HasToken(tok) == \E i \in 1..Len(args) : args[i] = tok

HasPair(tok1, tok2) == \E i \in 1..(Len(args) - 1) : args[i] = tok1 /\ args[i + 1] = tok2

\* Some token is the flag followed by further characters.
HasJoined(flag) ==
    \E i \in 1..Len(args) :
        /\ args[i].t = "str"
        /\ Len(args[i].s) > Len(flag)
        /\ SubSeq(args[i].s, 1, Len(flag)) = flag

StartsWithDashOrSlash(v) == v.t = "str" /\ v.s # <<>> /\ v.s[1] \in {"-", "/"}

\* C9: with trusted = true and either mode flag, the built list contains -T,
\* contains no -U and no -P token, and emits neither the user nor the password:
\* it is the list the same configuration builds with both credentials unset.
C9_TrustedSuppressesCredentials ==
    (apc = "built" /\ Truthy(bcp.trusted)) =>
        /\ HasToken(Str(<<"-", "T">>))
        /\ ~HasToken(Str(<<"-", "U">>))
        /\ ~HasToken(Str(<<"-", "P">>))
        /\ args = getCommonArgs([bcp EXCEPT !.user = Undef, !.password = Undef], omitFormat)

C9_Witness ==
    /\ apc = "built"
    /\ Truthy(bcp.trusted)
    /\ Truthy(bcp.user)
    /\ Truthy(bcp.password)
    /\ omitFormat

\* The terminator rule as C10 states it, for one flag and its configured value:
\* joined into one token when the value begins with - or /, else flag and value
\* as two consecutive tokens.
TerminatorRule(flag, v) ==
    Truthy(v) =>
        IF StartsWithDashOrSlash(v)
        THEN HasToken(Str(flag \o v.s))
        ELSE HasPair(Str(flag), Str(JsonStringify(v.s)))

\* C10 as stated: the rule holds for every configuration and either mode flag.
C10_Original ==
    apc = "built" =>
        /\ TerminatorRule(<<"-", "r">>, bcp.rowTerminator)
        /\ TerminatorRule(<<"-", "t">>, bcp.fieldTerminator)

\* The amended rule for one flag: with omitFormat false a non-empty terminator
\* is emitted exactly once, joined or as flag and JSON-quoted value; with
\* omitFormat true, or for an unset or empty terminator, nothing is emitted.
TerminatorRuleAmended(flag, v) ==
    IF Truthy(v) /\ ~omitFormat
    THEN IF StartsWithDashOrSlash(v)
         THEN HasToken(Str(flag \o v.s)) /\ ~HasToken(Str(flag))
         ELSE HasPair(Str(flag), Str(JsonStringify(v.s))) /\ ~HasJoined(flag)
    ELSE ~HasToken(Str(flag)) /\ ~HasJoined(flag)

\* C10 (amended): when omitFormat is false, a non-empty row or field terminator
\* beginning with - or / is one token, the flag immediately followed by the
\* value, and any other non-empty terminator is two consecutive tokens, the flag
\* and the JSON-quoted value; when omitFormat is true no terminator is emitted.
C10_TerminatorTokens ==
    apc = "built" =>
        /\ TerminatorRuleAmended(<<"-", "r">>, bcp.rowTerminator)
        /\ TerminatorRuleAmended(<<"-", "t">>, bcp.fieldTerminator)

C10_Witness ==
    /\ apc = "built"
    /\ ~omitFormat
    /\ StartsWithDashOrSlash(bcp.rowTerminator)
    /\ Truthy(bcp.fieldTerminator)
    /\ ~StartsWithDashOrSlash(bcp.fieldTerminator)
    /\ HasToken(Str(<<"-", "r">> \o bcp.rowTerminator.s))
    /\ HasPair(Str(<<"-", "t">>), Str(JsonStringify(bcp.fieldTerminator.s)))

\* The hints a configuration sets (truthy value), as <<keyword text>> in the
\* order C11 fixes.
ExpectedHints(b) ==
    LET Valued(keyword, v, close) ==
            [on |-> Truthy(v),
             text |-> IF ~Truthy(v) THEN <<>>
                      ELSE keyword \o (IF v.t = "str" /\ close # <<>> THEN v.s ELSE NumberText(v))
                           \o close]
        all == << Valued(ORDER_, b.order, <<")">>),
                  Valued(ROWS_PER_BATCH_, b.rowsPerBatch, <<>>),
                  Valued(KILOBYTES_PER_BATCH_, b.kbPerBatch, <<>>),
                  [on |-> Truthy(b.tabLock), text |-> TABLOCK],
                  [on |-> Truthy(b.checkConstraints), text |-> CHECK_CONSTRAINTS],
                  [on |-> Truthy(b.fireTriggers), text |-> FIRE_TRIGGERS] >>
        IsOn(h) == h.on
        set == SelectSeq(all, IsOn)
    IN  [k \in 1..Len(set) |-> set[k].text]

TokenPositions(tok) == {k \in 1..Len(args) : args[k] = tok}

\* C11: for every combination of the six hint options and either mode flag,
\* the built list contains -h exactly when at least one hint has a truthy
\* value; -h then occurs once and is followed by exactly one token, the last
\* of the list, which is the JSON-quoted comma-joined text of exactly the set
\* hints in the order ORDER, ROWS_PER_BATCH, KILOBYTES_PER_BATCH, TABLOCK,
\* CHECK_CONSTRAINTS, FIRE_TRIGGERS.
C11_HintClause ==
    apc = "built" =>
        LET want == ExpectedHints(bcp)
            at == TokenPositions(Str(<<"-", "h">>))
        IN  IF want = <<>>
            THEN at = {}
            ELSE /\ at = {Len(args) - 1}
                 /\ args[Len(args)] = Str(JsonStringify(Join(want)))

C11_Witness ==
    /\ apc = "built"
    /\ Truthy(bcp.order)
    /\ ~Truthy(bcp.rowsPerBatch)
    /\ Truthy(bcp.kbPerBatch)
    /\ Truthy(bcp.tabLock)
    /\ ~Truthy(bcp.checkConstraints)
    /\ Truthy(bcp.fireTriggers)
    /\ args[Len(args)] =
          Str(<<"\"">> \o ORDER_ \o <<"i", "d", ")", ",">> \o KILOBYTES_PER_BATCH_
              \o <<"5", ",">> \o TABLOCK \o <<",">> \o FIRE_TRIGGERS \o <<"\"">>)

-----------------------------------------------------------------------------
(* Claims about readExport. *)

ReadDelivered == rpc = "done" /\ Len(rcb) = 1 /\ rcb[1].err = Null

DeliveredRows == rcb[1].rest[1].v

\* t occurs in data at position p (wholly inside the buffer).
OccursAt(data, t, p) ==
    p >= 1 /\ p + Len(t) - 1 <= Len(data) /\ SubSeq(data, p, p + Len(t) - 1) = t

\* p is the first position from `from` on at which t occurs.
FirstAt(data, t, from, p) ==
    /\ p >= from
    /\ OccursAt(data, t, p)
    /\ \A q \in from..(p - 1) : ~OccursAt(data, t, q)

\* Where field c of a row begins, given the positions d of the terminators
\* of the fields before it in a row that begins at i.
FieldStart(fields, i, d, c) ==
    IF c = 1 THEN i ELSE d[c - 1] + Len(fields[c - 1].terminator)

\* The ways a complete row begins at offset i: the positions of its N
\* terminators, each the first occurrence after the field before it.
Cuts(data, fields, i) ==
    {d \in [1..Len(fields) -> 1..(Len(data) + 1)] :
        \A c \in 1..Len(fields) :
            FirstAt(data, fields[c].terminator, FieldStart(fields, i, d, c), d[c])}

\* The row object of the values cut out by d.
RowOf(data, fields, i, d) ==
    [n \in {fields[c].name : c \in 1..Len(fields)} |->
        LET c == CHOOSE x \in 1..Len(fields) :
                    /\ fields[x].name = n
                    /\ \A y \in 1..Len(fields) : fields[y].name = n => y <= x
        IN  fieldDeserialize(SubSeq(data, FieldStart(fields, i, d, c), d[c] - 1), fields[c])]

\* The rows all of whose terminators are found, in order, before the end of
\* the buffer, reading on from offset i.
RECURSIVE CompleteRows(_, _, _)
CompleteRows(data, fields, i) ==
    IF i > Len(data) \/ Cuts(data, fields, i) = {} THEN <<>>
    ELSE LET d == CHOOSE x \in Cuts(data, fields, i) : TRUE
         IN  <<RowOf(data, fields, i, d)>>
             \o CompleteRows(data, fields, FieldStart(fields, i, d, Len(fields) + 1))

\* C12: whenever readExport delivers after a successful read, it delivers no
\* error and exactly the rows all of whose N terminators were found in order
\* before the end of the buffer; a row begun but not terminated is dropped and
\* ends the scan, so nothing is delivered when the first row is truncated.
C12_CompleteRowsOnly ==
    rpc = "done" /\ rcb # <<>> /\ rcb[1].err = Null =>
        /\ Len(rcb) = 1
        /\ DeliveredRows = CompleteRows(rdata, rformat.fields, 1)
        /\ (rdata # <<>> /\ Cuts(rdata, rformat.fields, 1) = {} => DeliveredRows = <<>>)

\* A buffer whose first row is complete and whose second row lacks its last
\* terminator: one row is delivered.
C12_Witness ==
    /\ ReadDelivered
    /\ Len(rformat.fields) = 2
    /\ rdata = <<"1", "\t", "\n", "\t">>
    /\ Len(DeliveredRows) = 1
    /\ ri <= Len(rdata)

RECURSIVE Ascending(_)
Ascending(S) ==
    IF S = {} THEN <<>>
    ELSE LET m == CHOOSE x \in S : \A y \in S : x <= y
         IN  <<m>> \o Ascending(S \ {m})

\* A reading of the buffer as written row by row: P is the set of positions
\* at which the terminators of the successive values stand.
Layout(data, fields, P) ==
    LET p == Ascending(P)
        N == Len(fields)
        field(j) == fields[((j - 1) % N) + 1]
        start(j) == IF j = 1 THEN 1 ELSE p[j - 1] + Len(field(j - 1).terminator)
    IN  [count |-> Len(p),
         starts |-> [j \in 1..Len(p) |-> start(j)],
         ends |-> p,
         values |-> [j \in 1..Len(p) |-> SubSeq(data, start(j), p[j] - 1)],
         fields |-> [j \in 1..Len(p) |-> field(j)],
         last |-> IF p = <<>> THEN 0
                  ELSE p[Len(p)] + Len(field(Len(p)).terminator) - 1]

\* The buffer is the concatenation of complete rows laid out at P: every
\* value is followed by its field's terminator, and nothing is left over.
WrittenAs(data, fields, P) ==
    /\ Len(fields) >= 1
    /\ Cardinality(P) % Len(fields) = 0
    /\ LET l == Layout(data, fields, P)
       IN  /\ l.last = Len(data)
           /\ \A j \in 1..l.count :
                /\ l.starts[j] <= l.ends[j]
                /\ OccursAt(data, l.fields[j].terminator, l.ends[j])

Contains(v, t) == \E q \in 1..(Len(v) + 1) : OccursAt(v, t, q)

\* The rows that were written: row r holds the decoded values (r-1)N+1 .. rN.
WrittenRows(data, fields, P) ==
    LET l == Layout(data, fields, P)
        N == Len(fields)
    IN  [r \in 1..(l.count \div N) |->
            [n \in {fields[c].name : c \in 1..N} |->
                LET c == CHOOSE x \in 1..N : fields[x].name = n
                IN  fieldDeserialize(l.values[(r - 1) * N + c], fields[c])]]

\* C13 as stated: however the buffer is the concatenation of k complete rows
\* of N >= 1 values none of which contains its own field's terminator,
\* readExport delivers those k rows, decoded, in order.
C13_Original ==
    ReadDelivered =>
        \A P \in SUBSET (1..Len(rdata)) :
            (/\ WrittenAs(rdata, rformat.fields, P)
             /\ LET l == Layout(rdata, rformat.fields, P)
                IN  \A j \in 1..l.count : ~Contains(l.values[j], l.fields[j].terminator))
            => DeliveredRows = WrittenRows(rdata, rformat.fields, P)

\* The terminator first occurs in value + terminator where the value ends.
EndsValue(v, t) == t # <<>> /\ FirstAt(v \o t, t, 1, Len(v) + 1)

\* C13 (amended): however the buffer is the concatenation of k complete rows
\* of N >= 1 values, each followed by its field's non-empty terminator, such
\* that in no value followed by its terminator the terminator occurs before
\* the end of the value, readExport delivers exactly k rows in buffer order and
\* in each row the name of field i maps to fieldDeserialize of the i-th value;
\* terminators may have several characters and differ per field.
C13_CompleteRowsDecoded ==
    ReadDelivered =>
        \A P \in SUBSET (1..Len(rdata)) :
            (/\ WrittenAs(rdata, rformat.fields, P)
             /\ LET l == Layout(rdata, rformat.fields, P)
                IN  \A j \in 1..l.count : EndsValue(l.values[j], l.fields[j].terminator))
            => DeliveredRows = WrittenRows(rdata, rformat.fields, P)

\* The worked example: two rows of an integer and a bit.
C13_Witness ==
    /\ ReadDelivered
    /\ rdata = ExampleBuffer
    /\ Len(rformat.fields) = 2
    /\ rformat.fields[1].terminator = <<"\t">>
    /\ rformat.fields[2].terminator = <<"\n">>
    /\ DeliveredRows = << [n \in {<<"f", "0">>, <<"f", "1">>} |->
                             IF n = <<"f", "0">> THEN Num(42) ELSE Bool(TRUE)],
                          [n \in {<<"f", "0">>, <<"f", "1">>} |->
                             IF n = <<"f", "0">> THEN Num(7) ELSE Bool(FALSE)] >>

\* C15: the scan loop terminates.  A pass of the while loop reads nothing but
\* the buffer, the descriptor and the offset, and the offset never decreases;
\* so the loop terminates exactly when every pass after which the loop goes on
\* has moved the offset forward.
C15_ScanTerminates ==
    [][(rpc = "scanning" /\ rpc' = "scanning") => ri' > ri]_vars

-----------------------------------------------------------------------------
(* Claims about fieldDeserialize. *)

\* The tags Bcp.typesMap lists.
MappedTags == {"SQLBIT", "SQLTINYINT", "SQLSMALLINT", "SQLINT", "SQLBIGINT", "SQLFLT4",
               "SQLFLT8", "SQLDATETIME", "SQLDATETIM4", "SQLDATETIM8"}

\* C14: for every type tag the empty slice decodes to null and the slice of
\* one NUL character to the empty string, whatever the type would coerce them
\* to; any other slice of a SQLBIT field decodes to true exactly when it is
\* "1" and to false otherwise, and any other slice of a field whose tag the
\* types map does not list decodes to the same string.
C14_SentinelsBeforeCoercion ==
    dpc = "decoded" =>
        /\ dvalue = <<>> => dresult = Null
        /\ dvalue = <<NUL>> => dresult = Str(<<>>)
        /\ (dvalue # <<>> /\ dvalue # <<NUL>> /\ dfield.type = "SQLBIT")
              => dresult = Bool(dvalue = <<"1">>)
        /\ (dvalue # <<>> /\ dvalue # <<NUL>> /\ dfield.type \notin MappedTags)
              => dresult = Str(dvalue)

\* A NUL slice of a bit column: the empty string, not false.
C14_Witness ==
    /\ dpc = "decoded"
    /\ dvalue = <<NUL>>
    /\ dfield.type = "SQLBIT"
    /\ dresult = Str(<<>>)

-----------------------------------------------------------------------------
(* Claims about the numeric options and the encoding flag of getCommonArgs. *)

IsNumberToken(tok) == tok.t \in {"num", "NaN"}

\* The rule of C16 for one option: a truthy value gives the flag once,
\* immediately followed by the number of the value; any other value gives
\* no flag token.
NumericRule(flag, v) ==
    LET at == TokenPositions(Str(flag))
    IN  IF Truthy(v)
        THEN /\ Cardinality(at) = 1
             /\ \A k \in at :
                  /\ k < Len(args)
                  /\ IsNumberToken(args[k + 1])
                  /\ args[k + 1] = (IF v.t = "num" THEN v ELSE Num(DecimalValue(v.s)))
        ELSE at = {}

NumberTokens == {k \in 1..Len(args) : IsNumberToken(args[k])}

TruthyNumerics ==
    {k \in NumericOptionNames : Truthy(bcp[k])}

\* C16: for each of packetSize (-a), batchSize (-b), firstRow (-F), lastRow
\* (-L) and maxErrors (-m) the built list holds the flag immediately followed
\* by one number token exactly when the configured value is truthy; an unset
\* value and the value zero give no token, so the list holds as many number
\* tokens as there are truthy numeric options.
C16_NumericOptions ==
    apc = "built" =>
        /\ NumericRule(<<"-", "a">>, bcp.packetSize)
        /\ NumericRule(<<"-", "b">>, bcp.batchSize)
        /\ NumericRule(<<"-", "F">>, bcp.firstRow)
        /\ NumericRule(<<"-", "L">>, bcp.lastRow)
        /\ NumericRule(<<"-", "m">>, bcp.maxErrors)
        /\ Cardinality(NumberTokens) = Cardinality(TruthyNumerics)

C16_Witness ==
    /\ apc = "built"
    /\ bcp.packetSize = Undef
    /\ bcp.batchSize = Num(0)
    /\ bcp.firstRow = Num(7)
    /\ bcp.lastRow = Str(<<"1", "2">>)
    /\ bcp.maxErrors = Num(0)
    /\ HasPair(Str(<<"-", "F">>), Num(7))
    /\ HasPair(Str(<<"-", "L">>), Num(12))
    /\ ~HasToken(Str(<<"-", "b">>))

\* C19: built with omitFormat false the list holds exactly one encoding
\* flag, -w when unicode is true and -c when it is false; built with
\* omitFormat true it holds neither -w nor -c.
C19_EncodingFlag ==
    apc = "built" =>
        LET w == TokenPositions(Str(<<"-", "w">>))
            c == TokenPositions(Str(<<"-", "c">>))
        IN  IF omitFormat THEN w = {} /\ c = {}
            ELSE IF bcp.unicode = Bool(TRUE) THEN Cardinality(w) = 1 /\ c = {}
            ELSE bcp.unicode = Bool(FALSE) /\ Cardinality(c) = 1 /\ w = {}

C19_Witness ==
    /\ apc = "built"
    /\ ~omitFormat
    /\ bcp.unicode = Bool(FALSE)
    /\ HasToken(Str(<<"-", "c">>))
    /\ ~HasToken(Str(<<"-", "w">>))

-----------------------------------------------------------------------------
(* Claims about the order of the steps of bulkExport and about the frame of  *)
(* prepareBulkInsert.                                                        *)

HasCallOfRank(r) == \E k \in 1..Len(calls) : CallRank(calls[k]) = r

\* C18: in every run of bulkExport the external calls start in the order
\* ensure-directories, format generation (the tool in format mode, then the
\* load of the descriptor), the tool in out mode, the read of the export file
\* (when options.read), the deletions; a step has started only if every step
\* before it has started and has called back with success: the tool in out
\* mode only with the descriptor loaded, the read only with the tool's output
\* parsed into the details, a deletion only with the rows assigned, and while
\* a step is outstanding or has failed no later step has started.
C18_StepsInOrder ==
    op = "bulkExport" =>
        /\ \A a \in 1..Len(calls) : \A b \in a..Len(calls) :
              CallRank(calls[a]) <= CallRank(calls[b])
        /\ HasCallOfRank(1)
        /\ \A r \in {2, 3, 4} : HasCallOfRank(r + 1) => HasCallOfRank(r)
        /\ HasCallOfRank(2) => HasCallOfRank(1) /\ pc # "mkdirp"
        /\ HasCallOfRank(3) => pc # "fmtExec"
        /\ HasCallOfRank(4) => format.loaded /\ pc # "fmtLoad"
        /\ HasCallOfRank(5) => options.read /\ details.stdout # Null /\ pc # "exec"
        /\ HasCallOfRank(6) =>
              /\ HasCallOfRank(4)
              /\ details.stdout # Null
              /\ rows # Undef
              /\ options.read => HasCallOfRank(5) /\ rows.t = "array"
              /\ pc \notin {"exec", "readFile"}
        /\ ~format.loaded => ~HasCallOfRank(4)
        /\ details.stdout = Null => ~HasCallOfRank(5) /\ ~HasCallOfRank(6)
        /\ (hlog # NoErr \/ groupErr # NoErr) =>
              \A k \in 1..Len(calls) :
                  CallRank(calls[k]) <= FailRank(IF hlog # NoErr THEN hlog ELSE groupErr)

\* A run that read the export file and deleted both files afterwards.
C18_Witness ==
    /\ op = "bulkExport"
    /\ Succeeded
    /\ options.read
    /\ HasCallOfRank(5)
    /\ HasCallOfRank(6)
    /\ rows.t = "array"

\* C20: whatever prepareBulkInsert did to the descriptor FormatFile.fromFile
\* delivered, whether it then succeeded or failed on a missing column, the
\* descriptor has the same file name, the same number of fields, and at each
\* position a field of the same type and terminator; a field whose name, case
\* ignored, is that of no requested column has its name and inImport value
\* unchanged.
C20_PrepareFrame ==
    (op = "prepareBulkInsert" /\ origFormat.loaded) =>
        /\ format.filename = origFormat.filename
        /\ format.loaded
        /\ Len(format.fields) = Len(origFormat.fields)
        /\ \A k \in 1..Len(origFormat.fields) :
              /\ DOMAIN format.fields[k] = DOMAIN origFormat.fields[k]
              /\ format.fields[k].type = origFormat.fields[k].type
              /\ format.fields[k].terminator = origFormat.fields[k].terminator
              /\ (\A c \in 1..Len(columns) :
                      toLowerCase(columns[c]) # toLowerCase(origFormat.fields[k].name))
                   => format.fields[k] = origFormat.fields[k]

\* Two fields, the second one renamed and flagged, the first one untouched.
C20_Witness ==
    /\ op = "prepareBulkInsert"
    /\ origFormat.loaded
    /\ Len(origFormat.fields) = 2
    /\ format.fields[1] = origFormat.fields[1]
    /\ format.fields[2].name # origFormat.fields[2].name
    /\ format.fields[2].inImport
    /\ ~origFormat.fields[2].inImport

-----------------------------------------------------------------------------
(* Claims about two bulkExport calls running at once. *)

\* What call k holds is what its own steps produced.
OwnResults(k) ==
    LET r == ops[k]
    IN  r.pc # "idle" =>
          /\ r.options = ImplyKeep(mergeOptions(ExportDefaults, r.overrides))
          /\ r.details.formatFile = r.formatFile
          /\ r.details.exportFile = r.exportFile
          /\ r.format.loaded =>
                r.format = [filename |-> r.formatFile, fields |-> r.wroteFormat,
                            loaded |-> TRUE]
          /\ r.details.stdout # Null =>
                r.details = ParseDetails([formatFile |-> r.formatFile,
                                          exportFile |-> r.exportFile,
                                          rowCount |-> 0, stdout |-> Null], r.wroteStdout)
          /\ (r.rows # Undef /\ r.options.read) =>
                r.rows = Rows(readExport(r.wroteData, r.format))
          /\ (r.rows # Undef /\ ~r.options.read) => r.rows = Null
          /\ r.hlog # Err("enoent")
          /\ r.groupErr # Err("enoent")
          /\ \A p \in {r.formatFile, r.exportFile} \cap DOMAIN disk : disk[p].by = k
          /\ (r.pc = "done" /\ r.hlog = NoErr) =>
                r.cb = <<[err |-> Null, rest |-> <<r.rows, r.details>>]>>

-----------------------------------------------------------------------------
(* Claims about the configuration, the row count, the qualified table name, *)
(* the caller's paths and the caller's callback.                            *)

ExecCalls(cs) == {k \in 1..Len(cs) : cs[k].call = "exec"}

\* C21: no step of bulkExport, bulkInsert or prepareBulkInsert (the only
\* callers of getCommonArgs and getQualifiedTable) changes a field of the
\* configuration, and every token list handed to the tool, at whatever point
\* of the operation it was built, is the one the configuration and the mode
\* flag (true for bulkInsert, absent otherwise) determine.
C21_ConfigReadOnly ==
    [][/\ bcp' = bcp
       /\ \A k \in ExecCalls(calls') :
            calls'[k].args = getCommonArgs(bcp, calls'[k].mode = "in")]_vars

\* A finished bulkExport that ran the tool twice, the configuration still
\* being what the constructor made of the options.
C21_Witness ==
    /\ op = "bulkExport"
    /\ pc = "done"
    /\ Cardinality(ExecCalls(calls)) = 2
    /\ ~options.read
    /\ bcp = Bcp(NoOptions)

\* A summary stands at position p of s with n digits: n digits, then the
\* text " rows copied.".
SummaryAt(s, p, n) ==
    /\ n >= 1
    /\ p + n - 1 + Len(ROWS_COPIED) <= Len(s)
    /\ \A k \in p..(p + n - 1) : IsDigit(s[k])
    /\ SubSeq(s, p + n, p + n - 1 + Len(ROWS_COPIED)) = ROWS_COPIED

\* The number of the first summary of s is c (0 when s has no summary).
FirstSummaryIs(s, c) ==
    IF \E p \in 1..Len(s), n \in 1..Len(s) : SummaryAt(s, p, n)
    THEN \E p \in 1..Len(s), n \in 1..Len(s) :
            /\ SummaryAt(s, p, n)
            /\ \A q \in 1..(p - 1), m \in 1..Len(s) : ~SummaryAt(s, q, m)
            /\ c = DecimalValue(SubSeq(s, p, p + n - 1))
    ELSE c = 0

\* C22: on a successful bulkExport, with read enabled or not, details.stdout
\* is what the tool run in out mode printed, details.rowCount is the number of
\* the first "<N> rows copied." in it, 0 when there is none, and these details
\* are what the caller's callback gets.
C22_RowCountParsed ==
    (op = "bulkExport" /\ Succeeded) =>
        /\ toolStdout # Null
        /\ details.stdout = toolStdout
        /\ FirstSummaryIs(toolStdout.s, details.rowCount)
        /\ cb[1].rest[2] = details

\* An export that was not read back: of two summaries the first one counts.
C22_Witness ==
    /\ op = "bulkExport"
    /\ Succeeded
    /\ ~options.read
    /\ toolStdout = Str(<<"1", "2">> \o ROWS_COPIED \o <<"3">> \o ROWS_COPIED)
    /\ details.rowCount = 12

\* The three-part name written from the left: the database part, the schema
\* part, the table part, each part present when its name is set.
Part(v) == IF Truthy(v) THEN <<"[">> \o v.s \o <<"]", ".">> ELSE <<>>

PlainName(b, table) == Part(b.database) \o Part(b.schema) \o <<"[">> \o table \o <<"]">>

RECURSIVE Escaped(_)
Escaped(s) ==
    IF s = <<>> THEN <<>>
    ELSE IF Head(s) \in {"\"", "\\"} THEN <<"\\", Head(s)>> \o Escaped(Tail(s))
    ELSE <<Head(s)>> \o Escaped(Tail(s))

QualifiedName(b, table) ==
    IF b.quotedIdentifiers = Bool(TRUE)
    THEN <<"\"">> \o Escaped(PlainName(b, table)) \o <<"\"">>
    ELSE PlainName(b, table)

\* C23: the qualified name is [table], with [schema]. in front of it when the
\* instance has a schema and [database]. in front of that when it has a
\* database, the whole wrapped as one JSON string exactly when
\* quotedIdentifiers is on; every tool invocation of bulkExport, bulkInsert
\* and the format generation names the table by it.
C23_QualifiedTable ==
    /\ op # "idle" => fullTable = QualifiedName(bcp, TableName)
    /\ \A k \in ExecCalls(calls) : calls[k].table = QualifiedName(bcp, TableName)

\* An export on an instance with a database whose name holds a quote, the
\* default schema and quoted identifiers: both tool runs got "[d\"].[dbo].[t]".
C23_Witness ==
    /\ op = "bulkExport"
    /\ Cardinality(ExecCalls(calls)) = 2
    /\ Truthy(bcp.database)
    /\ \A k \in ExecCalls(calls) :
         calls[k].table = <<"\"", "[", "d", "\\", "\"", "]", ".", "[", "d", "b", "o", "]",
                            ".", "[", "t", "]", "\"">>

\* C24: a bulkExport whose options carry formatFile or exportFile works on
\* those paths (directories made, tool runs, file read, files removed) and
\* names them in details; a temp path stands in only for a path not passed.
C24_CallerPathsUsed ==
    op = "bulkExport" =>
        /\ "formatFile" \in DOMAIN overrides =>
              /\ formatFile = overrides.formatFile
              /\ details.formatFile = overrides.formatFile
        /\ "exportFile" \in DOMAIN overrides =>
              /\ dataFile = overrides.exportFile
              /\ details.exportFile = overrides.exportFile

\* An invocation of the caller's callback reports a failure (an error and
\* nothing else) or a success (no error), never both.
FailureOrSuccess(c) == c.err # Null => (c.err # NoErr /\ c.rest = <<>>)

\* C25: a started bulkExport, bulkInsert or prepareBulkInsert, all of whose
\* external calls complete, ends by invoking the caller's callback: once and
\* never again, with a failure or with a success.
C25_CallbackExactlyOnce ==
    /\ [](/\ Len(cb) <= 1
          /\ (pc = "done") = (Len(cb) = 1)
          /\ \A i \in 1..Len(cb) : FailureOrSuccess(cb[i]))
    /\ (op # "idle") ~> (Len(cb) = 1)
    /\ [][Len(cb) = 1 => cb' = cb]_vars

\* A bulkExport whose cleanup failed: both deletions have completed and the
\* failure was reported once.
C25_Witness ==
    /\ op = "bulkExport"
    /\ pc = "done"
    /\ Len(cb) = 1
    /\ cb[1].err # Null
    /\ pending = {}
    /\ Cardinality({k \in 1..Len(calls) : calls[k].call = "unlink"}) = 2

====
